---- MODULE Spec2Model ----
(***************************************************************************)
(* A model of the reactivity core of petite-vue:                           *)
(*   src/src/reactivity/reactive.ts            proxy construction, toRaw   *)
(*   src/src/reactivity/collectionHandlers.ts  Map/Set instrumentation     *)
(*   src/src/reactivity/effectScope.ts         the scope tree              *)
(*   src/src/reactivity/computed.ts            ComputedRefImpl             *)
(*   src/src/utils.ts                          hasChanged, isObject, ...   *)
(* effect.ts, dep.ts, baseHandlers.ts and constants.ts are not part of the *)
(* sources at hand; what the model needs of them follows spec.md (sections *)
(* 4.1, 4.2, 4.3, 4.4 and 4.6) and is marked as such where it is defined.  *)
(***************************************************************************)
EXTENDS Integers, Sequences, FiniteSets, TLC

VARIABLES
    objs,            \* the raw objects of the program: id -> [rawType, extensible, skip]
    heap,            \* the proxies made by `new Proxy`, in order of construction
    reactiveMap,     \* reactive.ts:21  target -> proxy (index into heap)
    readonlyMap,     \* reactive.ts:26  target -> proxy (index into heap)
    lastProxyCall,   \* history: the last reactive()/readonly()/toRaw() call and its result
    firstResult,     \* history: what reactive(o)/readonly(o) returned the first time
    mapData,         \* contents of the raw Map: key -> value
    setData,         \* contents of the raw Set
    lastCollCall,    \* history: the last collection method call, its pre-state,
                     \* its result and the triggers it emitted
    targetMap,       \* the deps [target, key] the subscriber of the program
                     \* is linked to (dep.ts)
    scopes,          \* the EffectScope objects made so far
    activeEffectScope,  \* effectScope.ts:3  the current scope (0: undefined)
    runStack,        \* the run(fn) calls whose fn has not returned, innermost last
    cleanupRuns,     \* history: how often each cleanup was invoked
    cleanupScope,    \* history: the scope each cleanup was registered on
    graph,           \* sources, computeds, effects, links and the batch
    lastCall,        \* history: the last scope or graph operation and the
                     \* state it began in
    stoppedAt        \* history: the number of runs each effect had when it or a
                     \* scope above it was stopped (-1: not stopped)

proxyVars == <<objs, heap, reactiveMap, readonlyMap, lastProxyCall, firstResult>>
collVars == <<mapData, setData, lastCollCall, targetMap>>
scopeVars == <<scopes, activeEffectScope, runStack, cleanupRuns, cleanupScope,
               graph, lastCall, stoppedAt>>
vars == <<objs, heap, reactiveMap, readonlyMap, lastProxyCall, firstResult,
          mapData, setData, lastCollCall, targetMap,
          scopes, activeEffectScope, runStack, cleanupRuns, cleanupScope,
          graph, lastCall, stoppedAt>>

(***************************************************************************)
(* Bounds of the model.                                                    *)
(***************************************************************************)
\* no more than this many proxies are ever constructed
MaxProxies == 4
\* no more than this many scopes are ever constructed
MaxScopes == 3
\* no more than this many cleanups are ever registered
MaxCleanups == 1
\* no more than this many run(fn) calls are open at a time
MaxRunDepth == 1
\* no more than this many triggers ever happen (globalVersion stays below it)
MaxWrites == 2
\* no more than this many batches are open at a time
MaxBatchDepth == 1
\* no scope has more than this many on() calls open
MaxOn == 2
\* no more than this many run(fn) calls are open at a time under SpecCurrent
MaxNesting == 2
\* no more than this many cleanups are ever registered under SpecOrder
MaxOrdered == 2
\* no more than this many scopes have an on() call open under SpecLive
MaxOpenOn == 1

(***************************************************************************)
(* JavaScript values.  A value is a tagged record; objects and proxies     *)
(* are references (an object id, an index into heap), so that === on them  *)
(* is identity.                                                            *)
(***************************************************************************)
Prim(n) == [t |-> "number", v |-> n]
Obj(n) == [t |-> "object", v |-> n]
Px(n) == [t |-> "proxy", v |-> n]
Undefined == [t |-> "undefined", v |-> 0]
Null == [t |-> "null", v |-> 0]
NaNVal == [t |-> "NaN", v |-> 0]
PosZero == Prim(0)
NegZero == [t |-> "-0", v |-> 0]
True == [t |-> "true", v |-> 0]
False == [t |-> "false", v |-> 0]

\* Object.is (SameValue): NaN is itself, +0 and -0 differ
ObjectIs(a, b) == a = b

\* === (strict equality): NaN is not itself, +0 and -0 are equal
StrictEquals(a, b) ==
    IF a = NaNVal \/ b = NaNVal THEN FALSE
    ELSE IF {a, b} = {PosZero, NegZero} THEN TRUE
    ELSE a = b

\* utils.ts:209 with `!==` in the place of Object.is
hasChangedStrict(value, oldValue) == ~StrictEquals(value, oldValue)

\* utils.ts:209
hasChanged(value, oldValue) == ~ObjectIs(value, oldValue)

\* utils.ts:32
isObject(val) == val.t \in {"object", "proxy"}

\* JavaScript truthiness (ToBoolean)
Truthy(val) == val \notin {Undefined, Null, False, NaNVal, PosZero, NegZero}

(***************************************************************************)
(* Proxies (reactive.ts).  A world w is the part of the program state the  *)
(* proxy functions read and write: [objs, heap, reactiveMap, readonlyMap]. *)
(* heap[i] = [target, handlers] is the i-th proxy constructed.             *)
(***************************************************************************)
World == [objs |-> objs, heap |-> heap,
          reactiveMap |-> reactiveMap, readonlyMap |-> readonlyMap]

IS_REACTIVE == "__v_isReactive"
IS_READONLY == "__v_isReadonly"
IS_SHALLOW == "__v_isShallow"
RAW == "__v_raw"
SKIP == "__v_skip"
ReactiveFlags == {IS_REACTIVE, IS_READONLY, IS_SHALLOW, RAW, SKIP}

\* whether a set of handlers is one of the two of collectionHandlers.ts
IsCollectionHandlers(handlers) ==
    handlers \in {"mutableCollectionHandlers", "readonlyCollectionHandlers"}

\* the isReadonly argument a set of handlers was created with
\* (collectionHandlers.ts:267-273; baseHandlers per spec.md 4.6)
HandlersReadonly(handlers) ==
    handlers \in {"readonlyHandlers", "readonlyCollectionHandlers"}

RECURSIVE Get(_, _, _)
\* collectionHandlers.ts:244-264, the get trap of a collection proxy read with
\* one of the flag keys; none of them is an instrumented method, so any other
\* key is Reflect.get(target, key, receiver)
createInstrumentationGetter(w, isReadonly, target, key) ==
    IF key = IS_REACTIVE THEN (IF ~isReadonly THEN True ELSE False)
    ELSE IF key = IS_READONLY THEN (IF isReadonly THEN True ELSE False)
    ELSE IF key = RAW THEN target
    ELSE Get(w, target, key)

\* the get trap of an object/array proxy read with one of the flag keys
\* (baseHandlers.ts; spec.md 4.6: "Special keys returned directly")
baseHandlersGet(w, isReadonly, target, key) ==
    IF key = IS_REACTIVE THEN (IF ~isReadonly THEN True ELSE False)
    ELSE IF key = IS_READONLY THEN (IF isReadonly THEN True ELSE False)
    ELSE IF key = IS_SHALLOW THEN False
    ELSE IF key = RAW THEN target
    ELSE Get(w, target, key)

\* value[key] for a flag key: a proxy answers through its get trap, a raw
\* object has only the SKIP flag it may carry, a primitive has none
Get(w, value, key) ==
    IF value.t = "proxy"
    THEN LET p == w.heap[value.v]
         IN  IF IsCollectionHandlers(p.handlers)
             THEN createInstrumentationGetter(
                      w, HandlersReadonly(p.handlers), p.target, key)
             ELSE baseHandlersGet(
                      w, HandlersReadonly(p.handlers), p.target, key)
    ELSE IF value.t = "object"
    THEN (IF key = SKIP /\ w.objs[value.v].skip THEN True ELSE Undefined)
    ELSE Undefined

RECURSIVE isExtensible(_, _)
\* Object.isExtensible: a proxy without that trap answers for its target
isExtensible(w, value) ==
    IF value.t = "proxy" THEN isExtensible(w, w.heap[value.v].target)
    ELSE w.objs[value.v].extensible

RECURSIVE toRawType(_, _)
\* utils.ts:193-195.  Object.prototype.toString sees an Array through a proxy
\* (IsArray) and reads Symbol.toStringTag through the get trap, which forwards
\* it to the target: a proxy has the raw type of its target
toRawType(w, value) ==
    IF value.t = "proxy" THEN toRawType(w, w.heap[value.v].target)
    ELSE w.objs[value.v].rawType

\* reactive.ts:38-51
targetTypeMap(rawType) ==
    CASE rawType \in {"Object", "Array"} -> "COMMON"
      [] rawType \in {"Map", "Set", "WeakMap", "WeakSet"} -> "COLLECTION"
      [] OTHER -> "INVALID"

\* reactive.ts:53-57 looking at the raw type only
getTargetTypeByRawType(w, value) == targetTypeMap(toRawType(w, value))

\* reactive.ts:53-57
getTargetType(w, value) ==
    IF Truthy(Get(w, value, SKIP)) \/ ~isExtensible(w, value)
    THEN "INVALID"
    ELSE targetTypeMap(toRawType(w, value))

\* reactive.ts:216-218
isReadonly(w, value) == Truthy(value) /\ Truthy(Get(w, value, IS_READONLY))

\* reactive.ts:220-222
isShallow(w, value) == Truthy(value) /\ Truthy(Get(w, value, IS_SHALLOW))

\* reactive.ts:231-233
isProxy(w, value) == IF Truthy(value) THEN Truthy(Get(w, value, RAW)) ELSE FALSE

\* reactive.ts:258-261 following one RAW pointer only
toRawOneLayer(w, observed) ==
    LET raw == IF Truthy(observed) THEN Get(w, observed, RAW) ELSE observed
    IN  IF Truthy(raw) THEN raw ELSE observed

RECURSIVE toRaw(_, _)
\* reactive.ts:258-261
toRaw(w, observed) ==
    LET raw == IF Truthy(observed) THEN Get(w, observed, RAW) ELSE observed
    IN  IF Truthy(raw) THEN toRaw(w, raw) ELSE observed

\* the result of a proxy function: the world it leaves and the value it returns
Result(w, ret) == [w |-> w, ret |-> ret]

\* reactive.ts:169-203 without the lookup of lines 193-196
createReactiveObjectNoCache(w, target, isRO, baseHandlers, collectionHandlers, proxyMap) ==
    IF ~isObject(target) THEN Result(w, target)
    ELSE IF Truthy(Get(w, target, RAW))
            /\ ~(isRO /\ Truthy(Get(w, target, IS_REACTIVE)))
    THEN Result(w, target)
    ELSE IF getTargetType(w, target) = "INVALID" THEN Result(w, target)
    ELSE LET handlers == IF getTargetType(w, target) = "COLLECTION"
                         THEN collectionHandlers ELSE baseHandlers
             proxy == Len(w.heap) + 1
         IN  Result([w EXCEPT !.heap = Append(@, [target |-> target,
                                                   handlers |-> handlers]),
                              ![proxyMap] = [t \in DOMAIN @ \cup {target} |->
                                               IF t = target THEN proxy ELSE @[t]]],
                    Px(proxy))

\* reactive.ts:169-203 without the test of lines 181-186
createReactiveObjectProxyWrapped(w, target, isRO, baseHandlers, collectionHandlers, proxyMap) ==
    IF ~isObject(target) THEN Result(w, target)
    ELSE IF getTargetType(w, target) = "INVALID" THEN Result(w, target)
    ELSE IF target \in DOMAIN w[proxyMap] THEN Result(w, Px(w[proxyMap][target]))
    ELSE LET handlers == IF getTargetType(w, target) = "COLLECTION"
                         THEN collectionHandlers ELSE baseHandlers
             proxy == Len(w.heap) + 1
         IN  Result([w EXCEPT !.heap = Append(@, [target |-> target,
                                                   handlers |-> handlers]),
                              ![proxyMap] = [t \in DOMAIN @ \cup {target} |->
                                               IF t = target THEN proxy ELSE @[t]]],
                    Px(proxy))

\* reactive.ts:169-203 returning the reactive proxy itself to readonly()
createReactiveObjectNoException(w, target, isRO, baseHandlers, collectionHandlers, proxyMap) ==
    IF ~isObject(target) THEN Result(w, target)
    ELSE IF Truthy(Get(w, target, RAW)) THEN Result(w, target)
    ELSE IF getTargetType(w, target) = "INVALID" THEN Result(w, target)
    ELSE IF target \in DOMAIN w[proxyMap] THEN Result(w, Px(w[proxyMap][target]))
    ELSE createReactiveObjectNoCache(
             w, target, isRO, baseHandlers, collectionHandlers, proxyMap)

\* reactive.ts:169-203
createReactiveObject(w, target, isRO, baseHandlers, collectionHandlers, proxyMap) ==
    IF ~isObject(target) THEN Result(w, target)
    \* target is already a Proxy, return it.
    \* exception: calling readonly() on a reactive object
    ELSE IF Truthy(Get(w, target, RAW))
            /\ ~(isRO /\ Truthy(Get(w, target, IS_REACTIVE)))
    THEN Result(w, target)
    \* only specific value types can be observed.
    ELSE IF getTargetType(w, target) = "INVALID" THEN Result(w, target)
    \* target already has corresponding Proxy
    ELSE IF target \in DOMAIN w[proxyMap] THEN Result(w, Px(w[proxyMap][target]))
    ELSE LET handlers == IF getTargetType(w, target) = "COLLECTION"
                         THEN collectionHandlers ELSE baseHandlers
             proxy == Len(w.heap) + 1
         IN  Result([w EXCEPT !.heap = Append(@, [target |-> target,
                                                   handlers |-> handlers]),
                              ![proxyMap] = [t \in DOMAIN @ \cup {target} |->
                                               IF t = target THEN proxy ELSE @[t]]],
                    Px(proxy))

\* reactive.ts:87-99
reactive(w, target) ==
    IF isReadonly(w, target) THEN Result(w, target)
    ELSE createReactiveObject(w, target, FALSE, "mutableHandlers",
                              "mutableCollectionHandlers", "reactiveMap")

\* reactive.ts:156-166
readonly(w, target) ==
    createReactiveObject(w, target, TRUE, "readonlyHandlers",
                         "readonlyCollectionHandlers", "readonlyMap")

\* reactive.ts:270-271
toReactive(w, value) == IF isObject(value) THEN reactive(w, value) ELSE Result(w, value)

\* reactive.ts:280-281
toReadonly(w, value) == IF isObject(value) THEN readonly(w, value) ELSE Result(w, value)

(***************************************************************************)
(* Collections (collectionHandlers.ts).  The program has one raw Map and   *)
(* one raw Set.  A collection state c is what a method call reads and      *)
(* writes: [w, map, set, ret, triggers]; map is the raw Map's contents     *)
(* (key -> value), set the raw Set's elements, ret the value the call      *)
(* returns, triggers the trigger() calls it made, in order, and seen the   *)
(* contents the raw collections had at each of those calls; activeSub      *)
(* tells whether the call is made inside the subscriber, tracks are the    *)
(* track() calls that found it active and deps the deps it is linked to.   *)
(***************************************************************************)
\* Map and Set compare keys by SameValueZero and store -0 as +0
SameValueZeroKey(key) == IF key = NegZero THEN PosZero ELSE key

\* Map.prototype.has / Set.prototype.has on raw contents
MapHas(map, key) == SameValueZeroKey(key) \in DOMAIN map
SetHas(set, value) == SameValueZeroKey(value) \in set

\* Map.prototype.get
MapGet(map, key) == IF MapHas(map, key) THEN map[SameValueZeroKey(key)] ELSE Undefined

\* Map.prototype.set
MapSet(map, key, value) ==
    [k \in DOMAIN map \cup {SameValueZeroKey(key)} |->
        IF k = SameValueZeroKey(key) THEN value ELSE map[k]]

\* Map.prototype.delete
MapDelete(map, key) == [k \in DOMAIN map \ {SameValueZeroKey(key)} |-> map[k]]

\* Set.prototype.add / Set.prototype.delete
SetAdd(set, value) == set \cup {SameValueZeroKey(value)}
SetDelete(set, value) == set \ {SameValueZeroKey(value)}

\* the methods a raw collection of the given type has (`key in target`,
\* collectionHandlers.ts:258)
MethodsOf(rawType) ==
    CASE rawType = "Map" -> {"get", "set", "has", "delete", "clear"}
      [] rawType = "Set" -> {"add", "has", "delete", "clear"}
      [] rawType = "WeakMap" -> {"get", "set", "has", "delete"}
      [] rawType = "WeakSet" -> {"add", "has", "delete"}
      [] OTHER -> {}

\* one call of trigger(target, type, key, newValue) (dep.ts)
Trigger(target, type, key, newValue) ==
    [target |-> target, type |-> type, key |-> key, newValue |-> newValue]

\* trigger(target, type, key, newValue) called in collection state c: the
\* call is recorded together with the contents the subscribers it notifies
\* would read
trigger(c, target, type, key, newValue) ==
    [c EXCEPT !.triggers = Append(@, Trigger(target, type, key, newValue)),
              !.seen = Append(@, [map |-> c.map, set |-> c.set])]

\* whether the raw collection `target` is the Map (isMap, utils.ts:122-123)
isMap(w, target) == toRawType(w, target) = "Map"

\* collectionHandlers.ts:73-81
createReadonlyMethod(type, c, this) ==
    [c EXCEPT !.ret = IF type = "delete" THEN False
                      ELSE IF type = "clear" THEN Undefined
                      ELSE this]

\* collectionHandlers.ts:158-170
add(shallow, c, this, value) ==
    LET raw == IF ~shallow /\ ~isShallow(c.w, value) /\ ~isReadonly(c.w, value)
               THEN toRaw(c.w, value) ELSE value
        target == toRaw(c.w, this)
        hadKey == SetHas(c.set, raw)
    IN  IF ~hadKey
        THEN trigger([c EXCEPT !.set = SetAdd(@, raw), !.ret = this],
                     target, "add", raw, raw)
        ELSE [c EXCEPT !.ret = this]

\* collectionHandlers.ts:171-192 with the triggers emitted before target.set
setTriggerFirst(shallow, c, this, key, value) ==
    LET raw == IF ~shallow /\ ~isShallow(c.w, value) /\ ~isReadonly(c.w, value)
               THEN toRaw(c.w, value) ELSE value
        target == toRaw(c.w, this)
        hadGiven == MapHas(c.map, key)
        k == IF ~hadGiven THEN toRaw(c.w, key) ELSE key
        hadKey == IF ~hadGiven THEN MapHas(c.map, k) ELSE hadGiven
        oldValue == MapGet(c.map, k)
        c1 == IF ~hadKey THEN trigger(c, target, "add", k, raw)
              ELSE IF hasChanged(raw, oldValue) THEN trigger(c, target, "set", k, raw)
              ELSE c
    IN  [c1 EXCEPT !.map = MapSet(@, k, raw), !.ret = this]

\* collectionHandlers.ts:171-192
set(shallow, c, this, key, value) ==
    LET raw == IF ~shallow /\ ~isShallow(c.w, value) /\ ~isReadonly(c.w, value)
               THEN toRaw(c.w, value) ELSE value
        target == toRaw(c.w, this)
        hadGiven == MapHas(c.map, key)
        k == IF ~hadGiven THEN toRaw(c.w, key) ELSE key
        hadKey == IF ~hadGiven THEN MapHas(c.map, k) ELSE hadGiven
        oldValue == MapGet(c.map, k)
        c1 == [c EXCEPT !.map = MapSet(@, k, raw), !.ret = this]
    IN  IF ~hadKey
        THEN trigger(c1, target, "add", k, raw)
        ELSE IF hasChanged(raw, oldValue)
        THEN trigger(c1, target, "set", k, raw)
        ELSE c1

\* collectionHandlers.ts:193-208 looking the key up in its given form only
deleteGivenOnly(c, this, key) ==
    LET target == toRaw(c.w, this)
        onMap == isMap(c.w, target)
        hadKey == IF onMap THEN MapHas(c.map, key) ELSE SetHas(c.set, key)
        c1 == IF onMap THEN [c EXCEPT !.map = MapDelete(@, key)]
              ELSE [c EXCEPT !.set = SetDelete(@, key)]
    IN  IF hadKey
        THEN trigger([c1 EXCEPT !.ret = True], target, "delete", key, Undefined)
        ELSE [c1 EXCEPT !.ret = False]

\* collectionHandlers.ts:193-208
delete(c, this, key) ==
    LET target == toRaw(c.w, this)
        onMap == isMap(c.w, target)
        has(x) == IF onMap THEN MapHas(c.map, x) ELSE SetHas(c.set, x)
        hadGiven == has(key)
        k == IF ~hadGiven THEN toRaw(c.w, key) ELSE key
        hadKey == IF ~hadGiven THEN has(k) ELSE hadGiven
        \* forward the operation before queueing reactions
        result == IF has(k) THEN True ELSE False
        c1 == IF onMap THEN [c EXCEPT !.map = MapDelete(@, k), !.ret = result]
              ELSE [c EXCEPT !.set = SetDelete(@, k), !.ret = result]
    IN  IF hadKey
        THEN trigger(c1, target, "delete", k, Undefined)
        ELSE c1

\* collectionHandlers.ts:209-223
clear(c, this) ==
    LET target == toRaw(c.w, this)
        onMap == isMap(c.w, target)
        hadItems == IF onMap THEN DOMAIN c.map # {} ELSE c.set # {}
        \* forward the operation before queueing reactions
        c1 == IF onMap THEN [c EXCEPT !.map = <<>>, !.ret = Undefined]
              ELSE [c EXCEPT !.set = {}, !.ret = Undefined]
    IN  IF hadItems
        THEN trigger(c1, target, "clear", Undefined, Undefined)
        ELSE c1

\* collectionHandlers.ts:148-225 with the mutable methods on every proxy
createInstrumentationsAllMutable(isRO, shallow, method, c, this, key, value) ==
    CASE method = "add" -> add(shallow, c, this, value)
      [] method = "set" -> set(shallow, c, this, key, value)
      [] method = "delete" -> delete(c, this, key)
      [] method = "clear" -> clear(c, this)

\* collectionHandlers.ts:148-225: the write methods createInstrumentations
\* installs for (readonly, shallow), applied to `this`
createInstrumentations(isRO, shallow, method, c, this, key, value) ==
    IF isRO
    THEN createReadonlyMethod(method, c, this)
    ELSE CASE method = "add" -> add(shallow, c, this, value)
           [] method = "set" -> set(shallow, c, this, key, value)
           [] method = "delete" -> delete(c, this, key)
           [] method = "clear" -> clear(c, this)

\* this[method](key, value) on a collection proxy: the get trap hands out the
\* instrumented method of the proxy's handlers (collectionHandlers.ts:257-263,
\* 267-273, both created with shallow = false)
CallMethod(c, this, method, key, value) ==
    createInstrumentations(HandlersReadonly(c.w.heap[this.v].handlers), FALSE,
                           method, c, this, key, value)

(***************************************************************************)
(* The read methods of a collection proxy (collectionHandlers.ts:30-71,    *)
(* 90-145).  ITERATE_KEY and MAP_KEY_ITERATE_KEY are the sentinel keys of  *)
(* dep.ts.  An iterator is [rest, wraps]: the elements the raw iterator    *)
(* has not given out yet and, innermost first, the wrapping each layer of  *)
(* proxy applies in next(); the raw Map and Set give their elements out in *)
(* one fixed order.  A pair [k, v] is the value Pair(k, v).                *)
(***************************************************************************)
ITERATE_KEY == [t |-> "symbol", v |-> 1]
MAP_KEY_ITERATE_KEY == [t |-> "symbol", v |-> 2]

Pair(a, b) == [t |-> "array", v |-> <<a, b>>]

\* track(target, key) (dep.ts; spec.md 4.1): a no-op outside an active
\* subscriber, else the subscriber is linked to the dep of (target, key)
track(c, target, key) ==
    IF c.activeSub
    THEN [c EXCEPT !.tracks = Append(@, [target |-> target, key |-> key]),
                   !.deps = @ \cup {[target |-> target, key |-> key]}]
    ELSE c

\* whether trigger call tr notifies the subscribers of dep (dep.ts; spec.md
\* 4.1): those of the key, of ITERATE_KEY when keys come or go, of
\* MAP_KEY_ITERATE_KEY when keys of a Map come or go, of every key on CLEAR
Notifies(w, tr, dep) ==
    /\ dep.target = tr.target
    /\ \/ tr.type = "clear"
       \/ dep.key = tr.key
       \/ tr.type \in {"add", "delete"} /\ dep.key = ITERATE_KEY
       \/ /\ tr.type \in {"add", "delete"}
          /\ dep.key = MAP_KEY_ITERATE_KEY
          /\ toRawType(w, tr.target) = "Map"

\* collectionHandlers.ts:46, 103, 137  wrap(value)
wrap(isRO, shallow, w, value) ==
    IF shallow THEN Result(w, value)
    ELSE IF isRO THEN toReadonly(w, value)
    ELSE toReactive(w, value)

RECURSIVE get(_, _, _, _, _)
\* target.get(key): the instrumented get of a proxy, Map.prototype.get of a
\* raw Map
targetGet(c, target, key) ==
    IF target.t = "proxy"
    THEN get(HandlersReadonly(c.w.heap[target.v].handlers), FALSE, c, target, key)
    ELSE [c EXCEPT !.ret = MapGet(c.map, key)]

\* collectionHandlers.ts:90-113 without the branch for an absent key (108-112)
getAbsentSkipped(isRO, shallow, c, this, key) ==
    LET target == Get(c.w, this, RAW)
        rawTarget == toRaw(c.w, target)
        rawKey == toRaw(c.w, key)
        tracked(c0) ==
            IF ~isRO
            THEN track(IF hasChanged(key, rawKey) THEN track(c0, rawTarget, key)
                       ELSE c0,
                       rawTarget, rawKey)
            ELSE c0
        wrapped(c2) ==
            LET r == wrap(isRO, shallow, c2.w, c2.ret)
            IN  [c2 EXCEPT !.w = r.w, !.ret = r.ret]
        dropped(c2) == [c2 EXCEPT !.ret = Undefined]
    IN  IF MapHas(c.map, key) THEN wrapped(targetGet(tracked(c), target, key))
        ELSE IF MapHas(c.map, rawKey)
        THEN wrapped(targetGet(tracked(c), target, rawKey))
        ELSE dropped(tracked(c))

\* collectionHandlers.ts:90-113  get(key)
get(isRO, shallow, c, this, key) ==
    LET target == Get(c.w, this, RAW)
        rawTarget == toRaw(c.w, target)
        rawKey == toRaw(c.w, key)
        tracked(c0) ==
            IF ~isRO
            THEN track(IF hasChanged(key, rawKey) THEN track(c0, rawTarget, key)
                       ELSE c0,
                       rawTarget, rawKey)
            ELSE c0
        wrapped(c2) ==
            LET r == wrap(isRO, shallow, c2.w, c2.ret)
            IN  [c2 EXCEPT !.w = r.w, !.ret = r.ret]
        dropped(c2) == [c2 EXCEPT !.ret = Undefined]
    IN  IF MapHas(c.map, key) THEN wrapped(targetGet(tracked(c), target, key))
        ELSE IF MapHas(c.map, rawKey)
        THEN wrapped(targetGet(tracked(c), target, rawKey))
        ELSE IF target # rawTarget
        THEN dropped(targetGet(tracked(c), target, key))
        ELSE dropped(tracked(c))

RECURSIVE SetToSeq(_)
\* the elements of S, one after another
SetToSeq(S) ==
    IF S = {} THEN <<>>
    ELSE LET x == CHOOSE x \in S : TRUE
         IN  <<x>> \o SetToSeq(S \ {x})

\* the entries [key, value] of the raw collection target, a Set having its
\* elements for keys and for values
Entries(c, target) ==
    IF isMap(c.w, target)
    THEN LET keys == SetToSeq(DOMAIN c.map)
         IN  [i \in DOMAIN keys |-> <<keys[i], c.map[keys[i]]>>]
    ELSE LET elements == SetToSeq(c.set)
         IN  [i \in DOMAIN elements |-> <<elements[i], elements[i]>>]

RECURSIVE size(_, _, _)
\* Reflect.get(target, 'size', target): the instrumented getter of a proxy,
\* the size of a raw collection
targetSize(c, target) ==
    IF target.t = "proxy"
    THEN size(HandlersReadonly(c.w.heap[target.v].handlers), c, target)
    ELSE [c EXCEPT !.ret = Prim(Len(Entries(c, target)))]

\* collectionHandlers.ts:114-118  get size()
size(isRO, c, this) ==
    LET target == Get(c.w, this, RAW)
        tracked(c0) == IF ~isRO THEN track(c0, toRaw(c.w, target), ITERATE_KEY)
                       ELSE c0
    IN  targetSize(tracked(c), target)

RECURSIVE wrapCalls(_, _, _, _, _, _)
\* collectionHandlers.ts:139-144: the calls callback.call(thisArg,
\* wrap(value), wrap(key), observed), one for each call target.forEach makes
wrapCalls(isRO, shallow, c, calls, observed, done) ==
    IF Len(done) = Len(calls) THEN [c EXCEPT !.ret = done]
    ELSE LET call == calls[Len(done) + 1]
             key(v) ==
                 LET k == wrap(isRO, shallow, v.w, call.key)
                 IN  wrapCalls(isRO, shallow, [c EXCEPT !.w = k.w], calls, observed,
                               Append(done, [value |-> v.ret, key |-> k.ret,
                                             observed |-> observed]))
         IN  key(wrap(isRO, shallow, c.w, call.value))

RECURSIVE forEach(_, _, _, _)
\* target.forEach(fn): the instrumented forEach of a proxy, or that of a raw
\* collection; ret is the sequence of the calls of fn
targetForEach(c, target) ==
    IF target.t = "proxy"
    THEN forEach(HandlersReadonly(c.w.heap[target.v].handlers), FALSE, c, target)
    ELSE LET entries == Entries(c, target)
         IN  [c EXCEPT !.ret = [i \in DOMAIN entries |->
                                   [value |-> entries[i][2], key |-> entries[i][1],
                                    observed |-> target]]]

\* collectionHandlers.ts:133-145  forEach(callback, thisArg); ret is the
\* sequence of the calls of callback
forEach(isRO, shallow, c, this) ==
    LET target == Get(c.w, this, RAW)
        rawTarget == toRaw(c.w, target)
        tracked(c0) == IF ~isRO THEN track(c0, rawTarget, ITERATE_KEY) ELSE c0
        calling(c2) == wrapCalls(isRO, shallow, c2, c2.ret, this, <<>>)
    IN  calling(targetForEach(tracked(c), target))

\* the elements the iterator target[method]() of a raw collection gives out
RawItems(c, target, method) ==
    LET entries == Entries(c, target)
        onMap == isMap(c.w, target)
    IN  [i \in DOMAIN entries |->
            IF method = "entries" \/ (method = "iterator" /\ onMap)
            THEN Pair(entries[i][1], entries[i][2])
            ELSE IF method = "values" /\ onMap THEN entries[i][2]
            ELSE entries[i][1]]

RECURSIVE createIterableMethod(_, _, _, _, _)
\* target[method](): the instrumented method of a proxy, or the iterator of a
\* raw collection
targetIterator(c, target, method) ==
    IF target.t = "proxy"
    THEN createIterableMethod(method, HandlersReadonly(c.w.heap[target.v].handlers),
                              FALSE, c, target)
    ELSE [c EXCEPT !.ret = [rest |-> RawItems(c, target, method), wraps |-> <<>>]]

\* collectionHandlers.ts:30-71 tracking ITERATE_KEY whatever the method
createIterableMethodOneKey(method, isRO, shallow, c, this) ==
    LET target == Get(c.w, this, RAW)
        rawTarget == toRaw(c.w, target)
        targetIsMap == isMap(c.w, rawTarget)
        isPair == method = "entries" \/ (method = "iterator" /\ targetIsMap)
        isKeyOnly == method = "keys" /\ targetIsMap
        tracked(c0) ==
            IF ~isRO
            THEN track(c0, rawTarget, ITERATE_KEY)
            ELSE c0
        returned(c1) ==
            [tracked(c1) EXCEPT !.ret =
                [rest |-> c1.ret.rest,
                 wraps |-> Append(c1.ret.wraps,
                                  [isPair |-> isPair, isRO |-> isRO,
                                   shallow |-> shallow])]]
    IN  returned(targetIterator(c, target, method))

\* collectionHandlers.ts:30-71  the method createIterableMethod returns,
\* called; ret is the iterator it hands back
createIterableMethod(method, isRO, shallow, c, this) ==
    LET target == Get(c.w, this, RAW)
        rawTarget == toRaw(c.w, target)
        targetIsMap == isMap(c.w, rawTarget)
        isPair == method = "entries" \/ (method = "iterator" /\ targetIsMap)
        isKeyOnly == method = "keys" /\ targetIsMap
        tracked(c0) ==
            IF ~isRO
            THEN track(c0, rawTarget, IF isKeyOnly THEN MAP_KEY_ITERATE_KEY ELSE ITERATE_KEY)
            ELSE c0
        returned(c1) ==
            [tracked(c1) EXCEPT !.ret =
                [rest |-> c1.ret.rest,
                 wraps |-> Append(c1.ret.wraps,
                                  [isPair |-> isPair, isRO |-> isRO,
                                   shallow |-> shallow])]]
    IN  returned(targetIterator(c, target, method))

RECURSIVE applyWraps(_, _, _, _)
\* collectionHandlers.ts:58-63: value as the layers of next() from the i-th
\* on hand it out
applyWraps(w, value, wraps, i) ==
    IF i > Len(wraps) THEN Result(w, value)
    ELSE LET isRO == wraps[i].isRO
             shallow == wraps[i].shallow
             second(a) ==
                 LET b == wrap(isRO, shallow, a.w, value.v[2])
                 IN  applyWraps(b.w, Pair(a.ret, b.ret), wraps, i + 1)
             single(a) == applyWraps(a.w, a.ret, wraps, i + 1)
         IN  IF wraps[i].isPair
             THEN second(wrap(isRO, shallow, w, value.v[1]))
             ELSE single(wrap(isRO, shallow, w, value))

\* collectionHandlers.ts:56-64  next() of the iterator it; ret is the
\* iteration result with the iterator as it is left
next(c, it) ==
    IF it.rest = <<>>
    THEN [c EXCEPT !.ret = [done |-> TRUE, value |-> Undefined, iterator |-> it]]
    ELSE LET r == applyWraps(c.w, Head(it.rest), it.wraps, 1)
         IN  [c EXCEPT !.w = r.w,
                       !.ret = [done |-> FALSE, value |-> r.ret,
                                iterator |-> [it EXCEPT !.rest = Tail(@)]]]

\* the read methods a raw collection of the given type has
ReadMethodsOf(rawType) ==
    CASE rawType = "Map" -> {"get", "size", "forEach", "keys", "values",
                             "entries", "iterator"}
      [] rawType = "Set" -> {"size", "forEach", "keys", "values", "entries",
                             "iterator"}
      [] OTHER -> {}

\* this[method](key) for a read method on a collection proxy: the get trap
\* hands out the instrumented method of the proxy's handlers
\* (collectionHandlers.ts:257-263, 267-273, both created with shallow = false)
CallRead(c, this, method, key) ==
    LET isRO == HandlersReadonly(c.w.heap[this.v].handlers)
    IN  CASE method = "get" -> get(isRO, FALSE, c, this, key)
          [] method = "size" -> size(isRO, c, this)
          [] method = "forEach" -> forEach(isRO, FALSE, c, this)
          [] OTHER -> createIterableMethod(method, isRO, FALSE, c, this)

(***************************************************************************)
(* The dependency graph.  computed.ts is at hand; Dep, Link, the effect,   *)
(* refreshComputed and the batch (dep.ts, effect.ts) follow spec.md 4.1 to *)
(* 4.4.  The program has one source cell a, two computeds and two effects: *)
(*     c1 = computed(() => floor(a.value / 2))                             *)
(*     c2 = computed(() => floor(c1.value / 2))                            *)
(*     e1 = effect(() => c2.value)                                         *)
(*     e2 = effect(() => { a.value; c1.value })                            *)
(* A graph state g holds                                                   *)
(*   value[src]         the source cells                                   *)
(*   globalVersion      the process-wide version                           *)
(*   version[dep]       dep.version                                        *)
(*   subs[dep]          the subscribers linked to dep, head to tail        *)
(*   deps[sub]          the deps linked to sub, head to tail               *)
(*   linkVersion[d, s]  link.version of the link between d and s           *)
(*   flags[sub]         the subscriber's flags                             *)
(*   cvalue[c], cglobal[c]   a computed's _value and globalVersion         *)
(*   setter[c], isReadonly[c]   a computed's setter (None: undefined) and  *)
(*                      its __v_isReadonly                                 *)
(*   activeSub, batchDepth, batchedSub, batchedComputed   module state     *)
(*   scope[e]           the scope that owns effect e (0: none)             *)
(*   runs[sub]          history: how often sub's function was invoked      *)
(*   seen[e]            history: what e's function read last; for e1 the   *)
(*                      value of c2 and the version of its dep then        *)
(*   readLink[sub]      history: when sub's latest read of a computed's    *)
(*                      value returned, whether the version on the link    *)
(*                      between sub and the computed's dep was that of the *)
(*                      dep                                                *)
(***************************************************************************)
Sources == {"a"}
Computeds == {"c1", "c2"}
Effects == {"e1", "e2"}
Subs == Computeds \cup Effects
Deps == Sources \cup Computeds
None == "none"

ACTIVE == "ACTIVE"
RUNNING == "RUNNING"
NOTIFIED == "NOTIFIED"
DIRTY == "DIRTY"
PAUSED == "PAUSED"

\* sequence helpers
Range(seq) == {seq[i] : i \in DOMAIN seq}
Without(seq, x) == SelectSeq(seq, LAMBDA y : y # x)
Reverse(seq) == [i \in DOMAIN seq |-> seq[Len(seq) + 1 - i]]

\* Dep.track (spec.md 4.1): with an active subscriber, ensure the link between
\* dep and it exists and record link.version = dep.version
depTrack(g, dep) ==
    LET s == g.activeSub
    IN  IF s = None THEN g
        ELSE IF s \in Range(g.subs[dep])
        THEN [g EXCEPT !.linkVersion[<<dep, s>>] = g.version[dep]]
        ELSE [g EXCEPT !.subs[dep] = Append(@, s),
                       !.deps[s] = Append(@, dep),
                       !.linkVersion[<<dep, s>>] = g.version[dep]]

\* batch(sub, isComputed) (spec.md 4.4): insert sub at the head of its list
\* if not already NOTIFIED
batch(g, sub, isComputed) ==
    IF NOTIFIED \in g.flags[sub] THEN g
    ELSE IF isComputed
    THEN [g EXCEPT !.flags[sub] = @ \cup {NOTIFIED},
                   !.batchedComputed = <<sub>> \o @]
    ELSE [g EXCEPT !.flags[sub] = @ \cup {NOTIFIED},
                   !.batchedSub = <<sub>> \o @]

\* computed.ts:70-80 without the test of line 75
computedNotifySelf(g, c) ==
    LET g1 == [g EXCEPT !.flags[c] = @ \cup {DIRTY}]
    IN  IF NOTIFIED \notin g1.flags[c]
        THEN [g |-> batch(g1, c, TRUE), ret |-> TRUE]
        ELSE [g |-> g1, ret |-> FALSE]

\* computed.ts:70-80  ComputedRefImpl.notify
computedNotify(g, c) ==
    LET g1 == [g EXCEPT !.flags[c] = @ \cup {DIRTY}]
    IN  IF NOTIFIED \notin g1.flags[c] /\ g1.activeSub # c
        THEN [g |-> batch(g1, c, TRUE), ret |-> TRUE]
        ELSE [g |-> g1, ret |-> FALSE]

\* ReactiveEffect.notify (spec.md 4.2): dropped while the effect itself is
\* running; else, if not NOTIFIED, set NOTIFIED and DIRTY and enqueue
effectNotify(g, e) ==
    IF RUNNING \in g.flags[e] /\ g.activeSub = e THEN g
    ELSE IF NOTIFIED \in g.flags[e] THEN g
    ELSE batch([g EXCEPT !.flags[e] = @ \cup {DIRTY}], e, FALSE)

\* sub.notify()
subNotify(g, sub) ==
    IF sub \in Computeds THEN computedNotify(g, sub).g ELSE effectNotify(g, sub)

RECURSIVE depNotifyFrom(_, _, _)
\* Dep.notify (spec.md 4.1), the walk from the i-th subscriber of the list as
\* it was when the walk began, towards the head
depNotifyFrom(g, list, i) ==
    IF i < 1 THEN g
    ELSE depNotifyFrom(subNotify(g, list[i]), list, i - 1)

\* Dep.notify (spec.md 4.1): walks the subscriber list tail to head
depNotify(g, dep) == depNotifyFrom(g, g.subs[dep], Len(g.subs[dep]))

RECURSIVE refreshComputed(_, _)
\* RefImpl get value (spec.md 6, ref): track, then the value
refGet(g, src) == [g |-> depTrack(g, src), ret |-> g.value[src]]

\* computed.ts:82-90 without the version sync of lines 85-88
getValueNoSync(g, c) ==
    LET return(g2) == [g |-> g2, ret |-> g2.cvalue[c]]
    IN  return(refreshComputed(depTrack(g, c), c))

\* computed.ts:82-90  ComputedRefImpl get value: dep.track() returns a link
\* iff there is an active subscriber; g2 is the state refreshComputed leaves
getValue(g, c) ==
    LET link == g.activeSub # None
        return(g2) ==
            [g |-> IF link
                   THEN [g2 EXCEPT !.linkVersion[<<c, g.activeSub>>] =
                                       g2.version[c]]
                   ELSE g2,
             ret |-> g2.cvalue[c]]
    IN  return(refreshComputed(depTrack(g, c), c))

\* c.value read by the function of sub; the history notes the versions when
\* the read returns
readValue(g, sub, c) ==
    LET noted(r) ==
            [g |-> [r.g EXCEPT !.readLink[sub] =
                        [of |-> c,
                         synced |-> r.g.linkVersion[<<c, sub>>] = r.g.version[c]]],
             ret |-> r.ret]
    IN  noted(getValue(g, c))

\* floor(x / 2) of the value a read returned
Half(r) == [g |-> r.g, ret |-> Prim(r.ret.v \div 2)]

\* the functions of the program's subscribers, run in graph state g
fn(g, sub) ==
    CASE sub = "c1" -> Half(refGet(g, "a"))
      [] sub = "c2" -> Half(readValue(g, sub, "c1"))
      [] sub = "e1" ->
           LET saw(r) ==
                   [g |-> [r.g EXCEPT !.seen[sub] = <<r.ret, r.g.version["c2"]>>],
                    ret |-> Undefined]
           IN  saw(readValue(g, sub, "c2"))
      [] sub = "e2" ->
           LET saw(r1, r2) ==
                   [g |-> [r2.g EXCEPT !.seen[sub] = <<r1.ret, r2.ret>>],
                    ret |-> Undefined]
               second(r1) == saw(r1, readValue(r1.g, sub, "c1"))
           IN  second(refGet(g, "a"))

RECURSIVE isDirtyFrom(_, _, _)
\* isDirty (spec.md 4.2 DIRTY and PENDING, 4.3 step 3), from the i-th dep of
\* sub on: some dep version has advanced past the link's version, a computed
\* dep being revalidated first
isDirtyFrom(g, sub, i) ==
    IF i > Len(g.deps[sub]) THEN [g |-> g, ret |-> FALSE]
    ELSE LET d == g.deps[sub][i]
             revalidated(g1) ==
                 IF g1.linkVersion[<<d, sub>>] # g1.version[d]
                 THEN [g |-> g1, ret |-> TRUE]
                 ELSE isDirtyFrom(g1, sub, i + 1)
         IN  IF g.linkVersion[<<d, sub>>] # g.version[d]
             THEN [g |-> g, ret |-> TRUE]
             ELSE IF d \in Computeds
             THEN revalidated(refreshComputed(g, d))
             ELSE isDirtyFrom(g, sub, i + 1)

isDirty(g, sub) == isDirtyFrom(g, sub, 1)

\* refreshComputed (spec.md 4.3, Refresh algorithm steps 1 to 5)
refreshComputed(g, c) ==
    IF DIRTY \notin g.flags[c] /\ g.cglobal[c] = g.globalVersion THEN g
    ELSE LET g1 == [g EXCEPT !.cglobal[c] = g.globalVersion]
             \* step 4, after the function returned r
             compare(r) ==
                 IF hasChanged(r.ret, r.g.cvalue[c])
                 THEN [r.g EXCEPT !.activeSub = g.activeSub,
                                  !.flags[c] = @ \ {RUNNING, DIRTY},
                                  !.version[c] = @ + 1,
                                  !.cvalue[c] = r.ret]
                 ELSE [r.g EXCEPT !.activeSub = g.activeSub,
                                  !.flags[c] = @ \ {RUNNING, DIRTY}]
             \* step 4, the tracking run
             recompute(g2) ==
                 compare(fn([g2 EXCEPT !.activeSub = c,
                                       !.flags[c] = @ \cup {RUNNING},
                                       !.runs[c] = @ + 1], c))
             \* step 3, after the deps were looked at
             revalidated(d) == IF d.ret THEN recompute(d.g) ELSE d.g
         IN  IF DIRTY \notin g1.flags[c] /\ g1.cvalue[c] # Undefined
             THEN revalidated(isDirty(g1, c))
             ELSE recompute(g1)

\* ReactiveEffect.run (spec.md 4.2, Run algorithm)
effectRun(g, e) ==
    IF ACTIVE \notin g.flags[e]
    THEN LET r == fn([g EXCEPT !.activeSub = None, !.runs[e] = @ + 1], e)
         IN  [r.g EXCEPT !.activeSub = g.activeSub]
    ELSE LET g1 == [g EXCEPT !.activeSub = e,
                             !.flags[e] = (@ \cup {RUNNING}) \ {DIRTY},
                             !.runs[e] = @ + 1]
             r == fn(g1, e)
         IN  [r.g EXCEPT !.activeSub = g.activeSub,
                         !.flags[e] = @ \ {RUNNING}]

RECURSIVE drainComputed(_)
\* the drain of the computed list (spec.md 4.4, drain step 1): each computed
\* has NOTIFIED cleared and the subscribers of its own dep notified
drainComputed(g) ==
    IF g.batchedComputed = <<>> THEN g
    ELSE LET c == Head(g.batchedComputed)
             g1 == [g EXCEPT !.batchedComputed = Tail(@),
                             !.flags[c] = @ \ {NOTIFIED}]
         IN  drainComputed(depNotify(g1, c))

RECURSIVE drainEffects(_, _, _)
\* the drain of the effect list (spec.md 4.4, drain step 2) from the i-th
\* entry on: NOTIFIED is cleared, and the effect runs if it is ACTIVE, not
\* PAUSED and dirty
drainEffects(g, list, i) ==
    IF i > Len(list) THEN g
    ELSE LET e == list[i]
             g1 == [g EXCEPT !.flags[e] = @ \ {NOTIFIED}]
             dispatch(d) ==
                 IF d.ret
                 THEN drainEffects(effectRun(d.g, e), list, i + 1)
                 ELSE drainEffects(d.g, list, i + 1)
         IN  IF ACTIVE \in g1.flags[e] /\ PAUSED \notin g1.flags[e]
             THEN dispatch(isDirty(g1, e))
             ELSE drainEffects(g1, list, i + 1)

RECURSIVE drain(_)
\* the drain (spec.md 4.4, drain steps 1 to 3): computeds, then effects in
\* the order they were enqueued, again while a list has entries
drain(g) ==
    IF g.batchedComputed = <<>> /\ g.batchedSub = <<>> THEN g
    ELSE LET effects(g1) ==
                 drainEffects([g1 EXCEPT !.batchedSub = <<>>],
                              Reverse(g1.batchedSub), 1)
         IN  drain(effects(drainComputed(g)))

\* startBatch (spec.md 4.4)
startBatch(g) == [g EXCEPT !.batchDepth = @ + 1]

\* endBatch (spec.md 4.4): the drain happens when the depth returns to zero
endBatch(g) ==
    LET g1 == [g EXCEPT !.batchDepth = @ - 1]
    IN  IF g1.batchDepth > 0 THEN g1 ELSE drain(g1)

\* Dep.trigger (spec.md 4.1): bump the versions and notify, in a batch
depTrigger(g, dep) ==
    LET g1 == startBatch([g EXCEPT !.globalVersion = @ + 1,
                                   !.version[dep] = @ + 1])
    IN  endBatch(depNotify(g1, dep))

\* RefImpl set value (spec.md 6, ref): store and trigger if the value changed
refSet(g, src, v) ==
    IF hasChanged(v, g.value[src])
    THEN depTrigger([g EXCEPT !.value[src] = v], src)
    ELSE g

\* computed.ts:60-65  the constructor, for computed c of the program
ComputedRefImpl(g, c, setter) ==
    [g EXCEPT !.setter[c] = setter, !.isReadonly[c] = (setter = None)]

\* the setter the program gives its writable computeds: v => { a.value = v }
userSetter(g, v) == refSet(g, "a", v)

\* computed.ts:92-96 without the test of line 93: calling the setter that is
\* undefined throws a TypeError
setValueUnguarded(g, c, newValue) ==
    IF g.setter[c] # None
    THEN [g |-> userSetter(g, newValue), calls |-> <<newValue>>, threw |-> FALSE]
    ELSE [g |-> g, calls |-> <<>>, threw |-> TRUE]

\* computed.ts:92-96  ComputedRefImpl set value; calls are the arguments the
\* setter was invoked with
setValue(g, c, newValue) ==
    IF g.setter[c] # None
    THEN [g |-> userSetter(g, newValue), calls |-> <<newValue>>, threw |-> FALSE]
    ELSE [g |-> g, calls |-> <<>>, threw |-> FALSE]

RECURSIVE detachFrom(_, _, _)
\* removal of the links of sub from its i-th dep on
detachFrom(g, sub, i) ==
    IF i > Len(g.deps[sub]) THEN [g EXCEPT !.deps[sub] = <<>>]
    ELSE LET d == g.deps[sub][i]
         IN  detachFrom([g EXCEPT !.subs[d] = Without(@, sub),
                                  !.linkVersion[<<d, sub>>] = 0], sub, i + 1)

(***************************************************************************)
(* Scopes (effectScope.ts).  A state st of the scope tree and the graph    *)
(* holds                                                                   *)
(*   scopes              the EffectScope objects made so far, scope n at   *)
(*                       position n; 0 stands for undefined                *)
(*   activeEffectScope   the module variable                               *)
(*   cleanupRuns         history: how often cleanup n was invoked          *)
(*   g                   the graph state                                   *)
(*   threw               an exception is propagating                       *)
(*   trace               history: the steps the stop() calls of the        *)
(*                       operation under way have taken, in order          *)
(* The fields of a scope are those of the class; index counts from 0 as in *)
(* the source, -1 standing for undefined.  A cleanup is a function that    *)
(* returns normally and touches no scope.                                  *)
(***************************************************************************)
\* history: the stop(), pause() or resume() of scope `by` took the step kind
\* on id
note(st, kind, by, id) ==
    [st EXCEPT !.trace = Append(@, [kind |-> kind, by |-> by, id |-> id])]

\* utils.ts:186-191  remove
remove(arr, el) == IF el \in Range(arr) THEN Without(arr, el) ELSE arr

\* ReactiveEffect.stop (spec.md 4.2, Stop; 7: a no-op on a stopped effect).
\* The effect leaves the effect list of its scope unless that scope is being
\* or has been stopped: EffectScope.stop walks its list by index and empties
\* it itself.
effectStop(st, e) ==
    IF ACTIVE \notin st.g.flags[e] THEN st
    ELSE LET g1 == detachFrom([st.g EXCEPT !.flags[e] = @ \ {ACTIVE}], e, 1)
             s == st.g.scope[e]
         IN  IF s # 0 /\ st.scopes[s].active
             THEN [st EXCEPT !.g = g1, !.scopes[s].effects = remove(@, e)]
             ELSE [st EXCEPT !.g = g1]

\* ReactiveEffect.pause (spec.md 4.2, Pause/resume): PAUSED suppresses
\* dispatch
effectPause(st, e) == [st EXCEPT !.g.flags[e] = @ \cup {PAUSED}]

\* ReactiveEffect.resume (spec.md 4.2, Pause/resume): on resume, if DIRTY,
\* dispatch immediately; the dispatch is that of the drain (spec.md 4.4)
effectResume(st, e) ==
    IF PAUSED \notin st.g.flags[e] THEN st
    ELSE LET g1 == [st.g EXCEPT !.flags[e] = @ \ {PAUSED}]
             dispatch(d) == IF d.ret THEN effectRun(d.g, e) ELSE d.g
         IN  IF DIRTY \in g1.flags[e] /\ ACTIVE \in g1.flags[e]
             THEN [st EXCEPT !.g = dispatch(isDirty(g1, e))]
             ELSE [st EXCEPT !.g = g1]

RECURSIVE pause(_, _)
RECURSIVE pauseScopes(_, _, _, _)
\* effectScope.ts:61-63  for (i = 0, l = this.scopes.length; i < l; i++)
pauseScopes(st, this, i, l) ==
    IF i >= l THEN st
    ELSE LET child == st.scopes[this].scopes[i + 1]
         IN  pauseScopes(pause(note(st, "pauseScope", this, child), child),
                         this, i + 1, l)

RECURSIVE pauseEffects(_, _, _, _)
\* effectScope.ts:65-67  for (i = 0, l = this.effects.length; i < l; i++)
pauseEffects(st, this, i, l) ==
    IF i >= l THEN st
    ELSE LET e == st.scopes[this].effects[i + 1]
         IN  pauseEffects(effectPause(note(st, "pauseEffect", this, e), e),
                          this, i + 1, l)

\* effectScope.ts:56-69  pause()
pause(st, this) ==
    IF st.scopes[this].active
    THEN LET effects(st2) ==
                 pauseEffects(st2, this, 0, Len(st2.scopes[this].effects))
             children(st1) ==
                 effects(pauseScopes(st1, this, 0, Len(st1.scopes[this].scopes)))
         IN  children([st EXCEPT !.scopes[this].isPaused = TRUE])
    ELSE st

RECURSIVE resume(_, _)
RECURSIVE resumeScopes(_, _, _, _)
\* effectScope.ts:80-82  for (i = 0, l = this.scopes.length; i < l; i++)
resumeScopes(st, this, i, l) ==
    IF i >= l THEN st
    ELSE LET child == st.scopes[this].scopes[i + 1]
         IN  resumeScopes(resume(note(st, "resumeScope", this, child), child),
                          this, i + 1, l)

RECURSIVE resumeEffects(_, _, _, _)
\* effectScope.ts:84-86  for (i = 0, l = this.effects.length; i < l; i++)
resumeEffects(st, this, i, l) ==
    IF i >= l THEN st
    ELSE LET e == st.scopes[this].effects[i + 1]
         IN  resumeEffects(effectResume(note(st, "resumeEffect", this, e), e),
                           this, i + 1, l)

\* effectScope.ts:77-87  the cascade of resume()
resumeCascade(st, this) ==
    LET effects(st2) ==
            resumeEffects(st2, this, 0, Len(st2.scopes[this].effects))
        children(st1) ==
            effects(resumeScopes(st1, this, 0, Len(st1.scopes[this].scopes)))
    IN  children([st EXCEPT !.scopes[this].isPaused = FALSE])

\* effectScope.ts:74-89 without the test of line 76
resumeNotPaused(st, this) ==
    IF st.scopes[this].active THEN resumeCascade(st, this) ELSE st

\* effectScope.ts:74-89  resume()
resume(st, this) ==
    IF st.scopes[this].active
    THEN IF st.scopes[this].isPaused THEN resumeCascade(st, this) ELSE st
    ELSE st

\* effectScope.ts:42-50 without the test of detached in line 44
newScopeAttached(st, detached) ==
    LET this == Len(st.scopes) + 1
        parent == st.activeEffectScope
        attach == parent # 0
        rec == [active |-> TRUE, on |-> 0, isPaused |-> FALSE,
                detached |-> detached, parent |-> parent, scopes |-> <<>>,
                index |-> IF attach THEN Len(st.scopes[parent].scopes) ELSE -1,
                effects |-> <<>>, cleanups |-> <<>>, prevScope |-> 0]
    IN  IF attach
        THEN [st EXCEPT !.scopes =
                 Append([@ EXCEPT ![parent].scopes = Append(@, this)], rec)]
        ELSE [st EXCEPT !.scopes = Append(@, rec)]

\* effectScope.ts:42-50  constructor
newScope(st, detached) ==
    LET this == Len(st.scopes) + 1
        parent == st.activeEffectScope
        attach == ~detached /\ parent # 0
        rec == [active |-> TRUE, on |-> 0, isPaused |-> FALSE,
                detached |-> detached, parent |-> parent, scopes |-> <<>>,
                index |-> IF attach THEN Len(st.scopes[parent].scopes) ELSE -1,
                effects |-> <<>>, cleanups |-> <<>>, prevScope |-> 0]
    IN  IF attach
        THEN [st EXCEPT !.scopes =
                 Append([@ EXCEPT ![parent].scopes = Append(@, this)], rec)]
        ELSE [st EXCEPT !.scopes = Append(@, rec)]

RECURSIVE stopEffects(_, _, _, _)
\* effectScope.ts:130-132  for (i = 0, l = this.effects.length; i < l; i++)
stopEffects(st, this, i, l) ==
    IF i >= l \/ st.threw THEN st
    ELSE IF i + 1 > Len(st.scopes[this].effects)
    THEN [st EXCEPT !.threw = TRUE]
    ELSE LET e == st.scopes[this].effects[i + 1]
         IN  stopEffects(effectStop(note(st, "effect", this, e), e),
                         this, i + 1, l)

RECURSIVE runCleanups(_, _, _, _)
\* effectScope.ts:135-137  for (i = 0, l = this.cleanups.length; i < l; i++)
runCleanups(st, this, i, l) ==
    IF i >= l \/ st.threw THEN st
    ELSE IF i + 1 > Len(st.scopes[this].cleanups)
    THEN [st EXCEPT !.threw = TRUE]
    ELSE LET c == st.scopes[this].cleanups[i + 1]
         IN  runCleanups(note([st EXCEPT !.cleanupRuns[c] = @ + 1],
                              "cleanup", this, c),
                         this, i + 1, l)

\* effectScope.ts:130-133 with the loop left out
stopOwnedEffectsSkipped(st, this) ==
    [st EXCEPT !.scopes[this].effects = <<>>]

\* effectScope.ts:130-133  the owned effects are stopped in list order
stopOwnedEffects(st, this) ==
    LET st1 == stopEffects(st, this, 0, Len(st.scopes[this].effects))
    IN  IF st1.threw THEN st1
        ELSE [st1 EXCEPT !.scopes[this].effects = <<>>]

\* effectScope.ts:135-138  the cleanups are invoked in list order
stopCleanups(st, this) ==
    IF st.threw THEN st
    ELSE LET st1 == runCleanups(st, this, 0, Len(st.scopes[this].cleanups))
         IN  IF st1.threw THEN st1
             ELSE [st1 EXCEPT !.scopes[this].cleanups = <<>>]

RECURSIVE stop(_, _, _)
RECURSIVE stopScopes(_, _, _, _)
\* effectScope.ts:141-143  for (i = 0, l = this.scopes.length; i < l; i++)
stopScopes(st, this, i, l) ==
    IF i >= l \/ st.threw THEN st
    ELSE IF i + 1 > Len(st.scopes[this].scopes)
    THEN [st EXCEPT !.threw = TRUE]
    ELSE IF st.scopes[this].scopes[i + 1] = 0
    THEN [st EXCEPT !.threw = TRUE]
    ELSE LET child == st.scopes[this].scopes[i + 1]
         IN  stopScopes(stop(note(st, "scope", this, child), child, TRUE),
                        this, i + 1, l)

\* effectScope.ts:140-145 with the child scopes dropped but not stopped
stopChildScopesSkipped(st, this) ==
    IF st.threw THEN st ELSE [st EXCEPT !.scopes[this].scopes = <<>>]

\* effectScope.ts:140-145  the child scopes are stopped with fromParent
stopChildScopes(st, this) ==
    IF st.threw THEN st
    ELSE LET st1 == stopScopes(st, this, 0, Len(st.scopes[this].scopes))
         IN  IF st1.threw THEN st1
             ELSE [st1 EXCEPT !.scopes[this].scopes = <<>>]

\* arr[i] = el of an array, i counting from 0; a hole holds 0
ArraySet(arr, i, el) ==
    [k \in 1 .. (IF i + 1 > Len(arr) THEN i + 1 ELSE Len(arr)) |->
        IF k = i + 1 THEN el ELSE IF k <= Len(arr) THEN arr[k] ELSE 0]

\* effectScope.ts:147-156 without last.index = this.index of line 153
stopUnlinkIndexKept(st, this, fromParent) ==
    IF st.threw THEN st
    ELSE LET sc == st.scopes[this]
             parent == sc.parent
             st2 ==
               IF ~sc.detached /\ parent # 0 /\ ~fromParent
               THEN LET st0 == note(st, "unlink", this, parent)
                        list == st.scopes[parent].scopes
                        last == IF list = <<>> THEN 0 ELSE list[Len(list)]
                        st1 == [st0 EXCEPT !.scopes[parent].scopes =
                                   IF list = <<>> THEN list
                                   ELSE SubSeq(list, 1, Len(list) - 1)]
                    IN  IF last # 0 /\ last # this
                        THEN [st1 EXCEPT
                                !.scopes[parent].scopes =
                                    ArraySet(@, sc.index, last)]
                        ELSE st1
               ELSE st
         IN  [st2 EXCEPT !.scopes[this].parent = 0]

\* effectScope.ts:147-156  swap-and-pop out of the parent, parent = undefined
stopUnlink(st, this, fromParent) ==
    IF st.threw THEN st
    ELSE LET sc == st.scopes[this]
             parent == sc.parent
             st2 ==
               IF ~sc.detached /\ parent # 0 /\ ~fromParent
               THEN LET st0 == note(st, "unlink", this, parent)
                        list == st.scopes[parent].scopes
                        last == IF list = <<>> THEN 0 ELSE list[Len(list)]
                        st1 == [st0 EXCEPT !.scopes[parent].scopes =
                                   IF list = <<>> THEN list
                                   ELSE SubSeq(list, 1, Len(list) - 1)]
                    IN  IF last # 0 /\ last # this
                        THEN [st1 EXCEPT
                                !.scopes[parent].scopes =
                                    ArraySet(@, sc.index, last),
                                !.scopes[last].index = sc.index]
                        ELSE st1
               ELSE st
         IN  [st2 EXCEPT !.scopes[this].parent = 0]

\* effectScope.ts:128-156 with the cleanups run before the effects are stopped
stopActiveCleanupsFirst(st, this, fromParent) ==
    stopUnlink(
        stopChildScopes(
            stopOwnedEffects(
                stopCleanups([st EXCEPT !.scopes[this].active = FALSE], this),
                this),
            this),
        this, fromParent)

\* effectScope.ts:128-156  the body of stop under if (this._active)
stopActive(st, this, fromParent) ==
    stopUnlink(
        stopChildScopes(
            stopCleanups(
                stopOwnedEffects([st EXCEPT !.scopes[this].active = FALSE],
                                 this),
                this),
            this),
        this, fromParent)

\* effectScope.ts:126-158 without the test of _active
stopUnguarded(st, this, fromParent) == stopActive(st, this, fromParent)

\* effectScope.ts:126-158  stop(fromParent)
stop(st, this, fromParent) ==
    IF st.scopes[this].active THEN stopActive(st, this, fromParent) ELSE st

\* effectScope.ts:91-101  run(fn) up to the call of fn: the frame holds
\* currentEffectScope; an inactive scope does not call fn
runEnter(st, this) ==
    IF st.scopes[this].active
    THEN [st |-> [st EXCEPT !.activeEffectScope = this],
          frame |-> <<[scope |-> this,
                       currentEffectScope |-> st.activeEffectScope]>>]
    ELSE [st |-> st, frame |-> <<>>]

\* effectScope.ts:97-99 without the assignment of the finally block
runFinallyKept(st, frame) == st

\* effectScope.ts:97-99  run(fn) once fn has returned or thrown: finally
runFinally(st, frame) ==
    [st EXCEPT !.activeEffectScope = frame.currentEffectScope]

\* effectScope.ts:91-101  what run(fn) hands back once fn is over: the state
\* the finally block leaves and fn's result, a value returned (96) or an
\* exception passing through
runReturn(st, frame, result) ==
    [st |-> runFinally(st, frame), ret |-> result]

\* effectScope.ts:108-113  on()
on(st, this) ==
    LET n == st.scopes[this].on + 1
    IN  IF n = 1
        THEN [st EXCEPT !.scopes[this].on = n,
                        !.scopes[this].prevScope = st.activeEffectScope,
                        !.activeEffectScope = this]
        ELSE [st EXCEPT !.scopes[this].on = n]

\* effectScope.ts:119-124 restoring on every off()
offEvery(st, this) ==
    IF st.scopes[this].on > 0
    THEN [st EXCEPT !.scopes[this].on = @ - 1,
                    !.activeEffectScope = st.scopes[this].prevScope,
                    !.scopes[this].prevScope = 0]
    ELSE st

\* effectScope.ts:119-124  off()
off(st, this) ==
    IF st.scopes[this].on > 0
    THEN LET n == st.scopes[this].on - 1
         IN  IF n = 0
             THEN [st EXCEPT !.scopes[this].on = n,
                             !.activeEffectScope = st.scopes[this].prevScope,
                             !.scopes[this].prevScope = 0]
             ELSE [st EXCEPT !.scopes[this].on = n]
    ELSE st

\* effect(fn) (spec.md 6): the effect is made, joins the effect list of the
\* scope that is active, and runs
effect(st, e) ==
    LET s == st.activeEffectScope
        g1 == [st.g EXCEPT !.flags[e] = {ACTIVE}, !.scope[e] = s]
        st1 == IF s # 0
               THEN [st EXCEPT !.scopes[s].effects = Append(@, e)]
               ELSE st
    IN  [st1 EXCEPT !.g = effectRun(g1, e)]

(***************************************************************************)
(* The state before any scope is made and any subscriber has run.          *)
(***************************************************************************)
\* the graph with source a holding v: no link, every version 0; a computed
\* starts DIRTY with globalVersion - 1 (computed.ts:24-50) and is made
\* without a setter, an effect that is not made yet has no flag
InitGraph(v) ==
    [value |-> [src \in Sources |-> v],
     globalVersion |-> 0,
     version |-> [d \in Deps |-> 0],
     subs |-> [d \in Deps |-> <<>>],
     deps |-> [sub \in Subs |-> <<>>],
     linkVersion |-> [l \in Deps \X Subs |-> 0],
     flags |-> [sub \in Subs |-> IF sub \in Computeds THEN {DIRTY} ELSE {}],
     cvalue |-> [c \in Computeds |-> Undefined],
     cglobal |-> [c \in Computeds |-> -1],
     setter |-> [c \in Computeds |-> None],
     isReadonly |-> [c \in Computeds |-> TRUE],
     activeSub |-> None,
     batchDepth |-> 0,
     batchedSub |-> <<>>,
     batchedComputed |-> <<>>,
     scope |-> [e \in Effects |-> 0],
     runs |-> [sub \in Subs |-> 0],
     seen |-> [e \in Effects |-> <<>>],
     readLink |-> [sub \in Subs |-> [of |-> None]]]

NoStop == [e \in Effects |-> -1]

NoScopeState ==
    /\ scopes = <<>>
    /\ activeEffectScope = 0
    /\ runStack = <<>>
    /\ cleanupRuns = <<>>
    /\ cleanupScope = <<>>
    /\ graph = InitGraph(PosZero)
    /\ lastCall = [op |-> "none"]
    /\ stoppedAt = NoStop

(***************************************************************************)
(* The program of SpecProxy: any sequence of reactive(x), readonly(x) and  *)
(* toRaw(x) calls, x any value the program holds.                          *)
(***************************************************************************)
ObjIds == DOMAIN objs

\* the raw objects of SpecProxy: a plain object or array, a collection, a
\* frozen object, a Date, and an object carrying the SKIP flag
ProxyObjs(common, collection) ==
    <<[rawType |-> common, extensible |-> TRUE, skip |-> FALSE],
      [rawType |-> collection, extensible |-> TRUE, skip |-> FALSE],
      [rawType |-> "Object", extensible |-> FALSE, skip |-> FALSE],
      [rawType |-> "Date", extensible |-> TRUE, skip |-> FALSE],
      [rawType |-> "Object", extensible |-> TRUE, skip |-> TRUE]>>

\* the values a call may be given: primitives, raw objects, proxies made so far
Values == {Prim(1), Null}
              \cup {Obj(i) : i \in ObjIds}
              \cup {Px(i) : i \in 1..Len(heap)}

NoCall == [op |-> "none", arg |-> Undefined, ret |-> Undefined,
           created |-> FALSE, cached |-> FALSE, seenBefore |-> FALSE]

\* the raw objects reactive() and readonly() accept
Observable(o) == getTargetType(World, Obj(o)) # "INVALID"

NoCollState ==
    /\ mapData = <<>>
    /\ setData = {}
    /\ lastCollCall = [op |-> "none"]
    /\ targetMap = {}

InitProxy ==
    /\ objs \in {ProxyObjs("Object", "Map"), ProxyObjs("Array", "Set"),
                 ProxyObjs("Object", "WeakMap"), ProxyObjs("Array", "WeakSet")}
    /\ heap = <<>>
    /\ reactiveMap = <<>>
    /\ readonlyMap = <<>>
    /\ lastProxyCall = NoCall
    /\ firstResult = [op \in {"reactive", "readonly"} |->
                        [o \in DOMAIN objs |-> Undefined]]
    /\ NoCollState
    /\ NoScopeState

\* a reactive()/readonly() call that left r; history is kept for the calls on
\* observable raw objects
ProxyCallDone(op, x, r) ==
    /\ Len(r.w.heap) <= MaxProxies
    /\ heap' = r.w.heap
    /\ reactiveMap' = r.w.reactiveMap
    /\ readonlyMap' = r.w.readonlyMap
    /\ LET tracked == x.t = "object" /\ Observable(x.v)
           seen == tracked /\ firstResult[op][x.v] # Undefined
       IN  /\ lastProxyCall' = [op |-> op, arg |-> x, ret |-> r.ret,
                                created |-> Len(r.w.heap) > Len(heap),
                                cached |-> \/ r.w.reactiveMap # reactiveMap
                                           \/ r.w.readonlyMap # readonlyMap,
                                seenBefore |-> seen]
           /\ firstResult' = IF tracked /\ ~seen
                             THEN [firstResult EXCEPT ![op][x.v] = r.ret]
                             ELSE firstResult
    /\ UNCHANGED <<objs, collVars, scopeVars>>

ReactiveCall(x) == ProxyCallDone("reactive", x, reactive(World, x))

ReadonlyCall(x) == ProxyCallDone("readonly", x, readonly(World, x))

ToRawCall(x) ==
    /\ lastProxyCall' = [op |-> "toRaw", arg |-> x, ret |-> toRaw(World, x),
                         created |-> FALSE, cached |-> FALSE,
                         seenBefore |-> FALSE]
    /\ UNCHANGED <<objs, heap, reactiveMap, readonlyMap, firstResult, collVars,
                   scopeVars>>

NextProxy ==
    \/ \E x \in Values : ReactiveCall(x)
    \/ \E x \in Values : ReadonlyCall(x)
    \/ \E x \in Values : ToRawCall(x)

SpecProxy == InitProxy /\ [][NextProxy]_vars

(***************************************************************************)
(* Claims on proxy construction, checked under SpecProxy.                  *)
(***************************************************************************)
\* the last call was op(o) on an observable raw object o
CalledOnObservable(op) ==
    /\ lastProxyCall.op = op
    /\ lastProxyCall.arg.t = "object"
    /\ Observable(lastProxyCall.arg.v)

\* the proxy p is what reactive(o) returned for some observable raw object o
ReturnedByReactive(p) ==
    \E o \in ObjIds : Observable(o) /\ firstResult["reactive"][o] = p

\* C2: for every observable raw object o, reactive(o) returns the same proxy
\* on every call and so does readonly(o), whatever calls were made in
\* between; a proxy is constructed on the first call for a target and flavor
\* and on no later one.
C2_SameProxyEveryTime ==
    /\ \A op \in {"reactive", "readonly"} :
         CalledOnObservable(op) =>
            /\ lastProxyCall.ret.t = "proxy"
            /\ lastProxyCall.ret = firstResult[op][lastProxyCall.arg.v]
            /\ lastProxyCall.created <=> ~lastProxyCall.seenBefore
    /\ \A o \in ObjIds : Observable(o) =>
         LET r1 == reactive(World, Obj(o))
             r2 == reactive(r1.w, Obj(o))
             q1 == readonly(r2.w, Obj(o))
             q2 == readonly(q1.w, Obj(o))
         IN  r1.ret = r2.ret /\ q1.ret = q2.ret /\ q2.w = q1.w /\ r2.w = r1.w

\* C2 witness: reactive(o) is called again after other proxies were made, and
\* returns the proxy of the first call without constructing one
C2_Witness ==
    /\ CalledOnObservable("reactive")
    /\ lastProxyCall.seenBefore /\ ~lastProxyCall.created
    /\ lastProxyCall.ret.t = "proxy"
    /\ lastProxyCall.ret.v < Len(heap)

\* C3: toRaw(reactive(o)), toRaw(readonly(o)) and toRaw(readonly(reactive(o)))
\* are o for every observable raw object o, and toRaw(x) is x for every value
\* x that is not a proxy.
C3_ToRawLeftInverse ==
    /\ \A o \in ObjIds : Observable(o) =>
         LET r1 == reactive(World, Obj(o))
             r2 == readonly(World, Obj(o))
             r3 == readonly(r1.w, r1.ret)
         IN  /\ toRaw(r1.w, r1.ret) = Obj(o)
             /\ toRaw(r2.w, r2.ret) = Obj(o)
             /\ toRaw(r3.w, r3.ret) = Obj(o)
    /\ \A x \in Values : x.t # "proxy" => toRaw(World, x) = x
    /\ lastProxyCall.op = "toRaw" =>
         /\ lastProxyCall.ret.t # "proxy"
         /\ lastProxyCall.arg.t # "proxy" => lastProxyCall.ret = lastProxyCall.arg
         /\ \A o \in ObjIds, op \in {"reactive", "readonly"} :
              (Observable(o) /\ firstResult[op][o] = lastProxyCall.arg)
                  => lastProxyCall.ret = Obj(o)

\* C3 witness: toRaw was called on a readonly proxy of a reactive proxy and
\* returned the raw object two layers down
C3_Witness ==
    /\ lastProxyCall.op = "toRaw"
    /\ lastProxyCall.arg.t = "proxy"
    /\ heap[lastProxyCall.arg.v].target.t = "proxy"
    /\ ReturnedByReactive(heap[lastProxyCall.arg.v].target)
    /\ lastProxyCall.ret.t = "object"

\* C4: for every observable raw object o, readonly(reactive(o)) is a proxy
\* other than reactive(o), it is readonly, and both have the raw target o.
C4_FlavorSeparation ==
    /\ \A o \in ObjIds : Observable(o) =>
         LET r1 == reactive(World, Obj(o))
             r3 == readonly(r1.w, r1.ret)
         IN  /\ r3.ret.t = "proxy"
             /\ r3.ret # r1.ret
             /\ isReadonly(r3.w, r3.ret)
             /\ toRaw(r3.w, r3.ret) = Obj(o)
             /\ toRaw(r3.w, r1.ret) = Obj(o)
    /\ (lastProxyCall.op = "readonly" /\ ReturnedByReactive(lastProxyCall.arg)) =>
         /\ lastProxyCall.ret.t = "proxy"
         /\ lastProxyCall.ret # lastProxyCall.arg
         /\ isReadonly(World, lastProxyCall.ret)
         /\ ~isReadonly(World, lastProxyCall.arg)

\* C4 witness: readonly() was called on a reactive proxy and constructed a
\* second proxy, whose target is the reactive proxy
C4_Witness ==
    /\ lastProxyCall.op = "readonly"
    /\ ReturnedByReactive(lastProxyCall.arg)
    /\ lastProxyCall.created
    /\ lastProxyCall.ret # lastProxyCall.arg
    /\ heap[lastProxyCall.ret.v].target = lastProxyCall.arg

\* the raw types reactive() and readonly() make proxies for
ObservableTypes == {"Object", "Array", "Map", "Set", "WeakMap", "WeakSet"}

\* x is a primitive or null, or a raw object that is not extensible, carries
\* the SKIP flag or has another raw type than the six
NotObservable(x) ==
    \/ x.t \notin {"object", "proxy"}
    \/ /\ x.t = "object"
       /\ \/ ~objs[x.v].extensible
          \/ objs[x.v].skip
          \/ objs[x.v].rawType \notin ObservableTypes

\* C14: reactive(x) and readonly(x) return x itself, make no proxy and add no
\* entry to a proxy cache when x is a primitive or null, a non-extensible
\* object, an object with the SKIP flag or an object of another raw type than
\* Object, Array, Map, Set, WeakMap, WeakSet; no such object is ever a key of
\* a cache.
C14_NotObservableUnchanged ==
    /\ (lastProxyCall.op \in {"reactive", "readonly"}
          /\ NotObservable(lastProxyCall.arg)) =>
            /\ lastProxyCall.ret = lastProxyCall.arg
            /\ ~lastProxyCall.created
            /\ ~lastProxyCall.cached
    /\ \A o \in DOMAIN objs :
          NotObservable(Obj(o)) =>
              Obj(o) \notin DOMAIN reactiveMap \cup DOMAIN readonlyMap

\* C14 witness: readonly(x) of a frozen plain object came back with x, after
\* proxies had been made for other objects
C14_Witness ==
    /\ lastProxyCall.op = "readonly"
    /\ lastProxyCall.arg.t = "object"
    /\ ~objs[lastProxyCall.arg.v].extensible
    /\ objs[lastProxyCall.arg.v].rawType = "Object"
    /\ ~objs[lastProxyCall.arg.v].skip
    /\ lastProxyCall.ret = lastProxyCall.arg
    /\ DOMAIN reactiveMap # {}
    /\ DOMAIN readonlyMap # {}

(***************************************************************************)
(* The program of SpecColl: a key object K with its reactive and readonly  *)
(* proxies, a raw Map M and a raw Set S, each with its reactive proxy, its *)
(* readonly proxy and the readonly proxy of its reactive proxy; then any   *)
(* sequence of add/set/delete/clear calls through those proxies.  The raw  *)
(* collections may hold entries put there before they were made reactive.  *)
(***************************************************************************)
CollObjs ==
    <<[rawType |-> "Object", extensible |-> TRUE, skip |-> FALSE],
      [rawType |-> "Map", extensible |-> TRUE, skip |-> FALSE],
      [rawType |-> "Set", extensible |-> TRUE, skip |-> FALSE]>>

KeyObj == Obj(1)
MapObj == Obj(2)
SetObj == Obj(3)

\* the world after reactive(K), readonly(K), and for each of M and S:
\* reactive(x), readonly(x), readonly(reactive(x))
CollWorld ==
    LET w0 == [objs |-> CollObjs, heap |-> <<>>,
               reactiveMap |-> <<>>, readonlyMap |-> <<>>]
        w1 == reactive(w0, KeyObj).w
        w2 == readonly(w1, KeyObj).w
        w3 == reactive(w2, MapObj)
        w4 == readonly(w3.w, MapObj).w
        w5 == readonly(w4, w3.ret).w
        w6 == reactive(w5, SetObj)
        w7 == readonly(w6.w, SetObj).w
    IN  readonly(w7, w6.ret).w

ReactiveKey == reactive(CollWorld, KeyObj).ret
ReadonlyKey == readonly(CollWorld, KeyObj).ret

\* the proxies of the two collections
CollProxies ==
    {p \in {Px(i) : i \in 1..Len(heap)} :
        toRawType(World, p) \in {"Map", "Set"}}

\* keys and values the calls are given
KeyArgs == {KeyObj, ReactiveKey}
ValueArgs == {NegZero, NaNVal, ReactiveKey, ReadonlyKey}
ElementArgs == {ReactiveKey, ReadonlyKey}

NoProxyHistory ==
    /\ lastProxyCall = NoCall
    /\ firstResult = [op \in {"reactive", "readonly"} |->
                        [o \in DOMAIN objs |-> Undefined]]

InitColl ==
    /\ objs = CollObjs
    /\ heap = CollWorld.heap
    /\ reactiveMap = CollWorld.reactiveMap
    /\ readonlyMap = CollWorld.readonlyMap
    /\ NoProxyHistory
    /\ mapData \in {<<>>, (ReactiveKey :> PosZero),
                    (ReactiveKey :> NaNVal) @@ (KeyObj :> KeyObj)}
    /\ setData \in {{}, {ReactiveKey}}
    /\ lastCollCall = [op |-> "none"]
    /\ targetMap = {}
    /\ NoScopeState

Coll == [w |-> World, map |-> mapData, set |-> setData,
         ret |-> Undefined, triggers |-> <<>>, seen |-> <<>>,
         tracks |-> <<>>, activeSub |-> FALSE, deps |-> targetMap]

\* this[method](key, value) was called: the call's effect and its history
CollCall(this, method, key, value) ==
    /\ method \in MethodsOf(toRawType(World, this))
    /\ LET c == CallMethod(Coll, this, method, key, value)
       IN  /\ mapData' = c.map
           /\ setData' = c.set
           /\ lastCollCall' = [op |-> method, this |-> this, key |-> key,
                               value |-> value, ret |-> c.ret,
                               triggers |-> c.triggers, seen |-> c.seen,
                               preMap |-> mapData, preSet |-> setData]
    /\ UNCHANGED <<proxyVars, scopeVars, targetMap>>

MapSetCall(this, key, value) == CollCall(this, "set", key, value)

SetAddCall(this, value) == CollCall(this, "add", value, value)

DeleteCall(this, key) == CollCall(this, "delete", key, Undefined)

ClearCall(this) == CollCall(this, "clear", Undefined, Undefined)

NextColl ==
    \/ \E this \in CollProxies, key \in KeyArgs, value \in ValueArgs :
          MapSetCall(this, key, value)
    \/ \E this \in CollProxies, value \in ElementArgs : SetAddCall(this, value)
    \/ \E this \in CollProxies, key \in KeyArgs \cup ElementArgs :
          DeleteCall(this, key)
    \/ \E this \in CollProxies : ClearCall(this)

SpecColl == InitColl /\ [][NextColl]_vars

(***************************************************************************)
(* Claims on the collection write methods, checked under SpecColl.         *)
(***************************************************************************)
ReactiveMapProxy == reactive(CollWorld, MapObj).ret
ReactiveSetProxy == reactive(CollWorld, SetObj).ret
MutableProxies == {ReactiveMapProxy, ReactiveSetProxy}
ReadonlyProxies == CollProxies \ MutableProxies

\* the raw form of an argument: K for the two proxies of K, else the argument
RawForm(x) == IF x \in {ReactiveKey, ReadonlyKey} THEN KeyObj ELSE x

\* the form in which add/set store a value: its raw form, except that a
\* readonly proxy is stored as given
StoredForm(x) == IF x = ReadonlyKey THEN x ELSE RawForm(x)

\* the types of the triggers the last call emitted, in order
TriggerTypes == [i \in DOMAIN lastCollCall.triggers |-> lastCollCall.triggers[i].type]

\* the last call was this.op(...) on the reactive proxy `this`
MutableCall(op, this) == lastCollCall.op = op /\ lastCollCall.this = this

\* the same call again, in the state the last call left
Repeated ==
    CallMethod(Coll, lastCollCall.this, lastCollCall.op,
               lastCollCall.key, lastCollCall.value)

\* set(key, value) triggered as C1 says, newValue being the value compared
\* with the old one
SetTriggered(newValue) ==
    LET pre == lastCollCall.preMap
        key == lastCollCall.key
        inGiven == MapHas(pre, key)
        inRaw == MapHas(pre, RawForm(key))
        old == IF inGiven THEN MapGet(pre, key) ELSE MapGet(pre, RawForm(key))
    IN  /\ (~inGiven /\ ~inRaw) => TriggerTypes = <<"add">>
        /\ ((inGiven \/ inRaw) /\ ~ObjectIs(newValue, old)) => TriggerTypes = <<"set">>
        /\ ((inGiven \/ inRaw) /\ ObjectIs(newValue, old)) => TriggerTypes = <<>>
        /\ \A i \in DOMAIN lastCollCall.triggers :
              lastCollCall.triggers[i].target = MapObj

\* add(value) triggered as C1 says, element being the value looked up
AddTriggered(element) ==
    /\ ~SetHas(lastCollCall.preSet, element) => TriggerTypes = <<"add">>
    /\ SetHas(lastCollCall.preSet, element) => TriggerTypes = <<>>
    /\ \A i \in DOMAIN lastCollCall.triggers :
          lastCollCall.triggers[i].target = SetObj

\* C1 as stated: through a mutable proxy, set(key, value) emits one ADD when
\* the key was absent in its given and its raw form, one SET when it was
\* present and the raw form of the new value is not SameValue-equal to the old
\* value, and nothing when it is; add(value) emits one ADD when the raw form
\* of the value was absent and nothing when it was present.
C1_AsStated ==
    /\ MutableCall("set", ReactiveMapProxy) => SetTriggered(RawForm(lastCollCall.value))
    /\ MutableCall("add", ReactiveSetProxy) => AddTriggered(RawForm(lastCollCall.value))

\* C1 (amended): as C1, with the new value taken in the form add/set store
\* it: its raw form, except that a readonly proxy is not unwrapped and is
\* compared and looked up as given.  The same set/add made again emits
\* no trigger.
C1_WriteTriggers ==
    /\ MutableCall("set", ReactiveMapProxy) =>
          /\ SetTriggered(StoredForm(lastCollCall.value))
          /\ Repeated.triggers = <<>>
    /\ MutableCall("add", ReactiveSetProxy) =>
          /\ AddTriggered(StoredForm(lastCollCall.value))
          /\ Repeated.triggers = <<>>

\* C1 witness: set(k, readonly(K)) on a map that held K under k: the key was
\* present, the raw form of the new value is the old value, and yet SET was
\* emitted, the readonly proxy being stored as given
C1_Witness ==
    /\ MutableCall("set", ReactiveMapProxy)
    /\ lastCollCall.value = ReadonlyKey
    /\ MapHas(lastCollCall.preMap, lastCollCall.key)
    /\ MapGet(lastCollCall.preMap, lastCollCall.key) = KeyObj
    /\ TriggerTypes = <<"set">>
    /\ MapGet(mapData, lastCollCall.key) = ReadonlyKey

\* C9: through a mutable proxy, delete(key) emits DELETE exactly when the key
\* was in the raw collection before the call, under the given key or else
\* under its raw form, and clear() emits CLEAR exactly when the raw
\* collection was not empty before the call.
C9_DeleteClearTriggers ==
    /\ \A this \in MutableProxies : MutableCall("delete", this) =>
          LET key == lastCollCall.key
              has(x) == IF this = ReactiveMapProxy
                        THEN MapHas(lastCollCall.preMap, x)
                        ELSE SetHas(lastCollCall.preSet, x)
              found == IF has(key) THEN key ELSE RawForm(key)
          IN  /\ (has(key) \/ has(RawForm(key))) <=> TriggerTypes = <<"delete">>
              /\ ~(has(key) \/ has(RawForm(key))) <=> TriggerTypes = <<>>
              /\ \A i \in DOMAIN lastCollCall.triggers :
                    /\ lastCollCall.triggers[i].key = found
                    /\ lastCollCall.triggers[i].target = toRaw(World, this)
    /\ \A this \in MutableProxies : MutableCall("clear", this) =>
          LET count == IF this = ReactiveMapProxy
                      THEN Cardinality(DOMAIN lastCollCall.preMap)
                      ELSE Cardinality(lastCollCall.preSet)
          IN  /\ count # 0 <=> TriggerTypes = <<"clear">>
              /\ count = 0 <=> TriggerTypes = <<>>

\* C9 witness: delete(reactive(K)) on a map that held K but not reactive(K)
\* emitted DELETE for K and removed it
C9_Witness ==
    /\ MutableCall("delete", ReactiveMapProxy)
    /\ lastCollCall.key = ReactiveKey
    /\ ~MapHas(lastCollCall.preMap, ReactiveKey)
    /\ MapHas(lastCollCall.preMap, KeyObj)
    /\ TriggerTypes = <<"delete">>
    /\ ~MapHas(mapData, KeyObj)

\* C10: on a readonly collection proxy add, set, delete and clear leave the
\* raw collections as they were and emit no trigger; add and set return the
\* proxy, delete returns false and clear returns undefined.
C10_ReadonlyNoOps ==
    (lastCollCall.op \in {"add", "set", "delete", "clear"}
        /\ lastCollCall.this \in ReadonlyProxies) =>
        /\ mapData = lastCollCall.preMap
        /\ setData = lastCollCall.preSet
        /\ lastCollCall.triggers = <<>>
        /\ lastCollCall.op \in {"add", "set"} => lastCollCall.ret = lastCollCall.this
        /\ lastCollCall.op = "delete" => lastCollCall.ret = False
        /\ lastCollCall.op = "clear" => lastCollCall.ret = Undefined

\* C10 witness: delete of a key the raw map holds, through the readonly proxy
\* of the reactive map, returned false and left the key in place
C10_Witness ==
    /\ lastCollCall.op = "delete"
    /\ lastCollCall.this \in ReadonlyProxies
    /\ heap[lastCollCall.this.v].target = ReactiveMapProxy
    /\ MapHas(lastCollCall.preMap, lastCollCall.key)
    /\ MapHas(mapData, lastCollCall.key)
    /\ lastCollCall.ret = False

\* C11: in add, set, delete and clear through a mutable proxy the raw
\* collection is mutated before trigger is called: at every trigger the call
\* emits, the raw collections already hold the contents the call leaves; the
\* added or set entry is present with its new value, the deleted key is
\* absent, the cleared collection is empty.
C11_MutateBeforeTrigger ==
    \A this \in MutableProxies, op \in {"add", "set", "delete", "clear"} :
        MutableCall(op, this) =>
            /\ Len(lastCollCall.seen) = Len(lastCollCall.triggers)
            /\ \A i \in DOMAIN lastCollCall.triggers :
                  LET t == lastCollCall.triggers[i]
                      s == lastCollCall.seen[i]
                      onMap == this = ReactiveMapProxy
                  IN  /\ s.map = mapData
                      /\ s.set = setData
                      /\ op = "set" => /\ MapHas(s.map, t.key)
                                       /\ MapGet(s.map, t.key) = t.newValue
                      /\ op = "add" => SetHas(s.set, t.key)
                      /\ op = "delete" =>
                            IF onMap THEN ~MapHas(s.map, t.key) ELSE ~SetHas(s.set, t.key)
                      /\ op = "clear" =>
                            IF onMap THEN DOMAIN s.map = {} ELSE s.set = {}

\* C11 witness: set(k, v) on a map that held another value under k emitted
\* SET, and at that trigger the raw map held v under k
C11_Witness ==
    /\ MutableCall("set", ReactiveMapProxy)
    /\ TriggerTypes = <<"set">>
    /\ MapHas(lastCollCall.preMap, lastCollCall.triggers[1].key)
    /\ MapGet(lastCollCall.preMap, lastCollCall.triggers[1].key)
          # lastCollCall.triggers[1].newValue
    /\ MapGet(lastCollCall.seen[1].map, lastCollCall.triggers[1].key)
          = lastCollCall.triggers[1].newValue

(***************************************************************************)
(* The program of SpecScope: user code makes scopes, enters and leaves     *)
(* run(fn), registers cleanups, makes effects and stops scopes, in any     *)
(* order; what happens between the entry of a run(fn) and its return is    *)
(* the body of fn.                                                         *)
(***************************************************************************)
St == [scopes |-> scopes, activeEffectScope |-> activeEffectScope,
       cleanupRuns |-> cleanupRuns, cleanupScope |-> cleanupScope,
       g |-> graph, threw |-> FALSE, trace |-> <<>>]

\* the operations whose history the claims read
Recorded == {"stop", "write", "endBatch", "read", "pause", "resume"}

\* the operation op(arg) on this left st
Commit(op, this, arg, st) ==
    /\ scopes' = st.scopes
    /\ activeEffectScope' = st.activeEffectScope
    /\ cleanupRuns' = st.cleanupRuns
    /\ cleanupScope' = st.cleanupScope
    /\ graph' = st.g
    /\ lastCall' = IF op \in Recorded
                   THEN [op |-> op, this |-> this, arg |-> arg, pre |-> St,
                         trace |-> st.trace]
                   ELSE [op |-> op]
    /\ UNCHANGED <<proxyVars, collVars>>

RECURSIVE Subtree(_, _)
\* the scope p and the scopes below it in the child lists of scs
Subtree(scs, p) ==
    {p} \cup UNION {Subtree(scs, c) : c \in Range(scs[p].scopes) \ {0}}

\* the effects that have been made
Made == {e \in Effects : graph.runs[e] > 0}

\* new EffectScope(detached)
NewScope(detached) ==
    /\ Len(scopes) < MaxScopes
    /\ Commit("new", Len(scopes) + 1, detached, newScope(St, detached))
    /\ UNCHANGED <<runStack, stoppedAt>>

\* this.run(fn) is called and, on an active scope, fn begins
RunEnter(this) ==
    /\ Len(runStack) < MaxRunDepth
    /\ LET r == runEnter(St, this)
       IN  /\ Commit("run", this, Undefined, r.st)
           /\ runStack' = runStack \o r.frame
    /\ UNCHANGED stoppedAt

\* the fn of the innermost run(fn) returns or throws
RunReturn ==
    /\ runStack # <<>>
    /\ LET frame == runStack[Len(runStack)]
       IN  Commit("return", frame.scope, Undefined, runFinally(St, frame))
    /\ runStack' = SubSeq(runStack, 1, Len(runStack) - 1)
    /\ UNCHANGED stoppedAt

\* this.cleanups.push(fn) with a new function fn, the max-th at most
RegisterCleanup(this, max) ==
    /\ Len(cleanupRuns) < max
    /\ LET c == Len(cleanupRuns) + 1
       IN  Commit("cleanup", this, c,
                  [St EXCEPT !.scopes[this].cleanups = Append(@, c),
                             !.cleanupRuns = Append(@, 0),
                             !.cleanupScope = Append(@, this)])
    /\ UNCHANGED <<runStack, stoppedAt>>

AddCleanup(this) == RegisterCleanup(this, MaxCleanups)

\* effect(fn) for the function of e
CreateEffect(e) ==
    /\ e \notin Made
    /\ Commit("effect", activeEffectScope, e, effect(St, e))
    /\ UNCHANGED <<runStack, stoppedAt>>

\* this.stop(fromParent); fromParent is the argument of the cascade
\* (spec.md 4.5), which user code passes to a stopped scope only.  The
\* history notes the runs of the effects this call is to stop.
Stop(this, fromParent) ==
    /\ fromParent => ~scopes[this].active
    /\ Commit("stop", this, fromParent, stop(St, this, fromParent))
    /\ stoppedAt' =
         [e \in Effects |->
            IF /\ scopes[this].active
               /\ e \in Made
               /\ ACTIVE \in graph.flags[e]
               /\ graph.scope[e] \in Subtree(scopes, this)
            THEN graph.runs[e]
            ELSE stoppedAt[e]]
    /\ UNCHANGED runStack

\* no raw object, no proxy, no collection
NoProxyState ==
    /\ objs = <<>>
    /\ heap = <<>>
    /\ reactiveMap = <<>>
    /\ readonlyMap = <<>>
    /\ lastProxyCall = NoCall
    /\ firstResult = [op \in {"reactive", "readonly"} |-> <<>>]
    /\ NoCollState

InitScope ==
    /\ NoProxyState
    /\ NoScopeState

NextScope ==
    \/ \E detached \in BOOLEAN : NewScope(detached)
    \/ \E this \in DOMAIN scopes : RunEnter(this)
    \/ RunReturn
    \/ \E this \in DOMAIN scopes : AddCleanup(this)
    \/ \E e \in {"e1"} : CreateEffect(e)
    \/ \E this \in DOMAIN scopes, fromParent \in BOOLEAN : Stop(this, fromParent)

SpecScope == InitScope /\ [][NextScope]_vars

(***************************************************************************)
(* Claims on scopes, checked under SpecScope.                              *)
(***************************************************************************)
\* the last operation was this.stop(...) and st is the state it began in
StopCalled == lastCall.op = "stop"

\* the scopes of the stopped scope's subtree when the stop began
StoppedSubtree == Subtree(lastCall.pre.scopes, lastCall.this)

\* after the stop: every scope of the subtree is inactive, no effect owned in
\* the subtree is ACTIVE, every cleanup registered in it has run exactly once
Cascaded ==
    /\ \A s \in StoppedSubtree : ~scopes[s].active
    /\ \A e \in Made :
          lastCall.pre.g.scope[e] \in StoppedSubtree => ACTIVE \notin graph.flags[e]
    /\ \A c \in DOMAIN cleanupScope :
          cleanupScope[c] \in StoppedSubtree => cleanupRuns[c] = 1

\* C5 as stated: after parent.stop() returns, whatever the tree and the stops
\* before it, every non-detached descendant scope is inactive, every effect
\* owned by the parent or such a descendant is stopped and every cleanup
\* registered in the subtree has been invoked exactly once
C5_AsStated == StopCalled => Cascaded

\* C5 (amended): the same, for a parent.stop() that finds the parent active
C5_ScopeCascade ==
    (StopCalled /\ lastCall.pre.scopes[lastCall.this].active) => Cascaded

\* a stop of an active scope with a child and a grandchild below it, an effect
\* owned and a cleanup registered below it
C5_Witness ==
    /\ StopCalled
    /\ lastCall.pre.scopes[lastCall.this].active
    /\ Cardinality(StoppedSubtree) >= 3
    /\ \E s \in StoppedSubtree : lastCall.pre.scopes[s].parent \notin {0, lastCall.this}
    /\ \E e \in Made : lastCall.pre.g.scope[e] \in StoppedSubtree \ {lastCall.this}
    /\ \E c \in DOMAIN cleanupScope :
          cleanupScope[c] \in StoppedSubtree \ {lastCall.this}

\* C6: a stop() of a scope that has been stopped before, with or without
\* fromParent, stops no effect, runs no cleanup, stops no child scope and
\* leaves every scope, child list and index as it was
C6_StopIdempotent ==
    (StopCalled /\ ~lastCall.pre.scopes[lastCall.this].active) =>
        /\ scopes = lastCall.pre.scopes
        /\ cleanupRuns = lastCall.pre.cleanupRuns
        /\ graph = lastCall.pre.g
        /\ activeEffectScope = lastCall.pre.activeEffectScope

\* a later stop(), without fromParent, of a stopped scope that has since got a
\* child scope, an effect and a cleanup
C6_Witness ==
    /\ StopCalled
    /\ ~lastCall.pre.scopes[lastCall.this].active
    /\ ~lastCall.arg
    /\ \E s \in DOMAIN scopes : scopes[s].active /\ scopes[s].parent = lastCall.this
    /\ scopes[lastCall.this].scopes # <<>>
    /\ scopes[lastCall.this].cleanups # <<>>
    /\ scopes[lastCall.this].effects # <<>>

(***************************************************************************)
(* The program of SpecGraph: a scope and a child scope of it are there     *)
(* from the start; user code makes the effects e1 and e2 inside run(fn) of  *)
(* the child scope, writes a, reads c2, opens and closes batches and stops *)
(* the effects and the scopes, in any order.                               *)
(***************************************************************************)
\* the values written to a
SourceValues == {Prim(0), Prim(1), Prim(2), Prim(4)}

EmptySt == [scopes |-> <<>>, activeEffectScope |-> 0, cleanupRuns |-> <<>>,
            cleanupScope |-> <<>>, g |-> InitGraph(PosZero), threw |-> FALSE,
            trace |-> <<>>]

\* const p = new EffectScope(); p.run(() => { new EffectScope() })
GraphScopes ==
    LET entered(r) == runFinally(newScope(r.st, FALSE), r.frame[1])
    IN  entered(runEnter(newScope(EmptySt, FALSE), 1)).scopes

\* this.run(() => effect(fn)) for the function of e
runEffect(st, this, e) ==
    LET entered(r) ==
            IF r.frame = <<>> THEN r.st
            ELSE runFinally(effect(r.st, e), r.frame[1])
    IN  entered(runEnter(st, this))

\* the child scope and its parent
ChildScope == Len(GraphScopes)
ParentScope == GraphScopes[ChildScope].parent

\* this.run(() => effect(fn))
CreateEffectIn(this, e) ==
    /\ e \notin Made
    /\ Commit("effect", this, e, runEffect(St, this, e))
    /\ UNCHANGED <<runStack, stoppedAt>>

\* a.value = v
Write(v) ==
    /\ graph.globalVersion < MaxWrites
    /\ Commit("write", 0, v, [St EXCEPT !.g = refSet(graph, "a", v)])
    /\ UNCHANGED <<runStack, stoppedAt>>

\* c.value is read by user code, outside any subscriber
ReadComputed(c) ==
    /\ Commit("read", 0, c, [St EXCEPT !.g = getValue(graph, c).g])
    /\ UNCHANGED <<runStack, stoppedAt>>

StartBatch ==
    /\ graph.batchDepth < MaxBatchDepth
    /\ Commit("startBatch", 0, Undefined, [St EXCEPT !.g = startBatch(graph)])
    /\ UNCHANGED <<runStack, stoppedAt>>

EndBatch ==
    /\ graph.batchDepth > 0
    /\ Commit("endBatch", 0, Undefined, [St EXCEPT !.g = endBatch(graph)])
    /\ UNCHANGED <<runStack, stoppedAt>>

\* e.stop(); the history notes the runs of e when this call stops it
EffectStop(e) ==
    /\ e \in Made
    /\ Commit("effectStop", 0, e, effectStop(St, e))
    /\ stoppedAt' = IF ACTIVE \in graph.flags[e]
                    THEN [stoppedAt EXCEPT ![e] = graph.runs[e]]
                    ELSE stoppedAt
    /\ UNCHANGED runStack

InitGraphSpec ==
    /\ NoProxyState
    /\ scopes = GraphScopes
    /\ activeEffectScope = 0
    /\ runStack = <<>>
    /\ cleanupRuns = <<>>
    /\ cleanupScope = <<>>
    /\ graph = InitGraph(PosZero)
    /\ lastCall = [op |-> "none"]
    /\ stoppedAt = NoStop

NextGraph ==
    \/ \E e \in Effects : CreateEffectIn(ChildScope, e)
    \/ \E this \in DOMAIN scopes : Stop(this, FALSE)
    \/ \E e \in Effects : EffectStop(e)
    \/ \E v \in SourceValues : Write(v)
    \/ ReadComputed("c2")
    \/ StartBatch
    \/ EndBatch

SpecGraph == InitGraphSpec /\ [][NextGraph]_vars

(***************************************************************************)
(* Claims on effects, computeds and the batch, checked under SpecGraph.    *)
(***************************************************************************)
\* C7: an effect that was stopped, by its own stop() or by the stop() of the
\* scope that owns it or of a scope above, has its function run no more: its
\* number of runs stays what it was at the stop, whatever is written later
\* and also if it was enqueued in an open batch when it was stopped
C7_StoppedNeverRuns ==
    \A e \in Effects :
        stoppedAt[e] # -1 => graph.runs[e] = stoppedAt[e]

\* a batch ends whose queue holds e2, which the stop() of the parent scope
\* stopped after the write that enqueued it
C7_Witness ==
    /\ lastCall.op = "endBatch"
    /\ "e2" \in Range(lastCall.pre.g.batchedSub)
    /\ stoppedAt["e2"] # -1
    /\ ~scopes[ParentScope].active
    /\ graph.scope["e2"] = ChildScope
    /\ graph.batchedSub = <<>>

\* the last operation was a write of a or the end of a batch
Dispatched == lastCall.op \in {"write", "endBatch"}

\* the last operation ran the function of computed c, and the value it
\* returned is SameValue-equal to the value c had cached
RecomputedEqual(c) ==
    /\ graph.runs[c] > lastCall.pre.g.runs[c]
    /\ ObjectIs(graph.cvalue[c], lastCall.pre.g.cvalue[c])

\* before the last operation e1 was active and nothing had changed c2 since
\* e1 read it
E1UpToDate ==
    /\ ACTIVE \in lastCall.pre.g.flags["e1"]
    /\ lastCall.pre.g.seen["e1"] =
           <<lastCall.pre.g.cvalue["c2"], lastCall.pre.g.version["c2"]>>

\* before the last operation the cached value of c2 was the one its function
\* gives for the cached value of c1
C2UpToDate ==
    /\ lastCall.pre.g.cvalue["c1"] # Undefined
    /\ lastCall.pre.g.cvalue["c2"] = Prim(lastCall.pre.g.cvalue["c1"].v \div 2)

\* C8: in the chain a -> c1 -> c2 -> e1 a write of a, or the end of a batch of
\* writes, runs each effect at most once; a computed whose recomputed value is
\* SameValue-equal to its cached value does not get its dep version bumped,
\* and e1, if it had seen the cached value, is then not run at all
C8_GlitchFree ==
    Dispatched =>
        /\ \A e \in Effects : graph.runs[e] <= lastCall.pre.g.runs[e] + 1
        /\ \A c \in Computeds :
              RecomputedEqual(c) =>
                  graph.version[c] = lastCall.pre.g.version[c]
        /\ (E1UpToDate /\ (RecomputedEqual("c2")
                              \/ (RecomputedEqual("c1") /\ C2UpToDate))) =>
              graph.runs["e1"] = lastCall.pre.g.runs["e1"]

\* a write outside a batch changes c1 and leaves c2 as it was cached: c2 is
\* recomputed, its version stays and e1, subscribed and up to date, is not run
C8_Witness ==
    /\ lastCall.op = "write"
    /\ lastCall.pre.g.batchDepth = 0
    /\ E1UpToDate
    /\ graph.cvalue["c1"] # lastCall.pre.g.cvalue["c1"]
    /\ graph.version["c1"] > lastCall.pre.g.version["c1"]
    /\ RecomputedEqual("c2")
    /\ graph.runs["e1"] = lastCall.pre.g.runs["e1"]

(***************************************************************************)
(* The program of SpecCurrent: a scope and a child scope of it are there   *)
(* from the start; user code calls run(fn), on() and off() on them and     *)
(* stops them, in any order; fn returns a value or throws.  runStack      *)
(* holds the frames of the run(fn) calls whose fn has not ended, with the  *)
(* scope that was current at the call.  lastCall holds                     *)
(* the last call with the scopes before it and, as long as the calls have  *)
(* been properly nested (proper), the run(fn) and counted on() calls that  *)
(* are still open, innermost last (nest).                                  *)
(***************************************************************************)
\* what fn does at its end: it returns a value or throws one
Results == {[threw |-> FALSE, value |-> Prim(1)], [threw |-> TRUE, value |-> Prim(2)]}

Last(s) == s[Len(s)]
Front(s) == SubSeq(s, 1, Len(s) - 1)

\* the call op on this left st and returned ret
Called(op, this, ret, st, nest, proper, closed) ==
    /\ scopes' = st.scopes
    /\ activeEffectScope' = st.activeEffectScope
    /\ lastCall' = [op |-> op, this |-> this, ret |-> ret,
                    pre |-> [scopes |-> scopes,
                             activeEffectScope |-> activeEffectScope,
                             depth |-> Len(runStack)],
                    nest |-> IF proper THEN nest ELSE <<>>,
                    proper |-> proper, closed |-> closed]
    /\ UNCHANGED <<proxyVars, collVars, cleanupRuns, cleanupScope, graph,
                   stoppedAt>>

\* an open call of the given kind on this, made when `before` was current
Open(kind, this) ==
    [kind |-> kind, scope |-> this, before |-> activeEffectScope]

\* this.run(fn) is called: on an active scope fn begins, on a stopped scope
\* run returns undefined at once
CurrentRun(this) ==
    /\ Len(runStack) < MaxNesting
    /\ LET r == runEnter(St, this)
       IN  /\ Called("run", this, Undefined, r.st,
                     IF r.frame = <<>> THEN lastCall.nest
                     ELSE Append(lastCall.nest, Open("run", this)),
                     lastCall.proper, <<>>)
           /\ runStack' = runStack \o
                 [i \in DOMAIN r.frame |->
                     [scope |-> r.frame[i].scope,
                      currentEffectScope |-> r.frame[i].currentEffectScope,
                      before |-> activeEffectScope]]

\* the fn of the innermost run(fn) ends with result: run returns
CurrentReturn(result) ==
    /\ runStack # <<>>
    /\ LET frame == Last(runStack)
           r == runReturn(St, frame, result)
           nested == /\ lastCall.proper
                     /\ lastCall.nest # <<>>
                     /\ Last(lastCall.nest).kind = "run"
       IN  Called("return", frame.scope, r.ret, r.st,
                  IF nested THEN Front(lastCall.nest) ELSE <<>>,
                  nested,
                  <<[kind |-> "run", scope |-> frame.scope,
                     before |-> frame.before, result |-> result]>>)
    /\ runStack' = Front(runStack)

\* this.on()
CurrentOn(this) ==
    /\ scopes[this].on < MaxOn
    /\ Called("on", this, Undefined, on(St, this),
              Append(lastCall.nest, Open("on", this)), lastCall.proper, <<>>)
    /\ UNCHANGED runStack

\* this.off(); it closes the innermost open call when that is an on() of
\* this, it closes nothing when no on() of this is open, and else the calls
\* are not properly nested
CurrentOff(this) ==
    /\ LET idle == scopes[this].on = 0
           nested == /\ lastCall.proper
                     /\ lastCall.nest # <<>>
                     /\ Last(lastCall.nest).kind = "on"
                     /\ Last(lastCall.nest).scope = this
       IN  Called("off", this, Undefined, off(St, this),
                  IF idle THEN lastCall.nest
                  ELSE IF nested THEN Front(lastCall.nest) ELSE <<>>,
                  IF idle THEN lastCall.proper ELSE nested,
                  IF ~idle /\ nested THEN <<Last(lastCall.nest)>> ELSE <<>>)
    /\ UNCHANGED runStack

\* this.stop()
CurrentStop(this) ==
    /\ Called("stop", this, Undefined, stop(St, this, FALSE),
              lastCall.nest, lastCall.proper, <<>>)
    /\ UNCHANGED runStack

InitCurrent ==
    /\ NoProxyState
    /\ scopes = GraphScopes
    /\ activeEffectScope = 0
    /\ runStack = <<>>
    /\ cleanupRuns = <<>>
    /\ cleanupScope = <<>>
    /\ graph = InitGraph(PosZero)
    /\ lastCall = [op |-> "none", nest |-> <<>>, proper |-> TRUE]
    /\ stoppedAt = NoStop

NextCurrent ==
    \/ \E this \in DOMAIN scopes : CurrentRun(this)
    \/ \E result \in Results : CurrentReturn(result)
    \/ \E this \in DOMAIN scopes : CurrentOn(this)
    \/ \E this \in DOMAIN scopes : CurrentOff(this)
    \/ \E this \in DOMAIN scopes : CurrentStop(this)

SpecCurrent == InitCurrent /\ [][NextCurrent]_vars

(***************************************************************************)
(* Claims on the current scope, checked under SpecCurrent.                 *)
(***************************************************************************)
\* C12: run(fn) on an active scope makes it the current scope when fn
\* begins, it is the current scope whenever fn's own code runs with every
\* call made inside it closed, run returns fn's result, and whether fn
\* returns or throws, nested in another run or not, the scope that was
\* current at the call is current again; on a stopped scope run does not
\* call fn, returns undefined and leaves the current scope as it was.
C12_RunSavesRestores ==
    /\ lastCall.op = "run" =>
          IF lastCall.pre.scopes[lastCall.this].active
          THEN /\ activeEffectScope = lastCall.this
               /\ Len(runStack) = lastCall.pre.depth + 1
               /\ Last(runStack).scope = lastCall.this
          ELSE /\ activeEffectScope = lastCall.pre.activeEffectScope
               /\ scopes = lastCall.pre.scopes
               /\ lastCall.ret = Undefined
               /\ Len(runStack) = lastCall.pre.depth
    /\ lastCall.op = "return" =>
          /\ activeEffectScope = lastCall.closed[1].before
          /\ lastCall.ret = lastCall.closed[1].result
          /\ Len(runStack) = lastCall.pre.depth - 1
          /\ scopes = lastCall.pre.scopes
    /\ (lastCall.proper /\ lastCall.nest # <<>>
          /\ Last(lastCall.nest).kind = "run") =>
          activeEffectScope = Last(lastCall.nest).scope

\* C12 witness: the fn of a run nested in the run of another scope threw, and
\* the outer scope is current again
C12_Witness ==
    /\ lastCall.op = "return"
    /\ lastCall.ret.threw
    /\ runStack # <<>>
    /\ Last(runStack).scope # lastCall.this
    /\ lastCall.pre.activeEffectScope = lastCall.this
    /\ activeEffectScope = Last(runStack).scope
    /\ activeEffectScope # 0

\* the scopes other than the one the last call was made on are as before
OthersUnchanged ==
    \A s \in DOMAIN scopes : s # lastCall.this => scopes[s] = lastCall.pre.scopes[s]

\* C19: on()/off() are counted: the on() that takes the count from 0 to 1
\* saves the current scope and makes the scope current, the off() that takes
\* it from 1 to 0 makes the saved scope current, the on()/off() calls in
\* between change the count only, off() at count 0 changes nothing, no count
\* is negative, and in a properly nested sequence of calls every off() that
\* closes an on() leaves current the scope that was current before that on().
C19_OnOffCounted ==
    /\ \A s \in DOMAIN scopes : scopes[s].on >= 0
    /\ lastCall.op = "on" =>
          LET was == lastCall.pre.scopes[lastCall.this]
              now == scopes[lastCall.this]
          IN  /\ now = [was EXCEPT !.on = was.on + 1,
                                   !.prevScope = IF was.on = 0
                                                 THEN lastCall.pre.activeEffectScope
                                                 ELSE was.prevScope]
              /\ activeEffectScope = IF was.on = 0 THEN lastCall.this
                                     ELSE lastCall.pre.activeEffectScope
              /\ OthersUnchanged
    /\ lastCall.op = "off" =>
          LET was == lastCall.pre.scopes[lastCall.this]
              now == scopes[lastCall.this]
          IN  /\ was.on = 0 => /\ now = was
                               /\ activeEffectScope = lastCall.pre.activeEffectScope
              /\ was.on = 1 => /\ now = [was EXCEPT !.on = 0, !.prevScope = 0]
                               /\ activeEffectScope = was.prevScope
              /\ was.on > 1 => /\ now = [was EXCEPT !.on = was.on - 1]
                               /\ activeEffectScope = lastCall.pre.activeEffectScope
              /\ OthersUnchanged
              /\ (lastCall.proper /\ lastCall.closed # <<>>) =>
                    activeEffectScope = lastCall.closed[1].before

\* C19 witness: the off(a) of properly nested on(a) on(b) on(a) off(a), a and
\* b two scopes: it took a's count from 2 to 1 and closed the inner on(a);
\* b, made current by on(b), is still current and a's saved scope is kept
C19_Witness ==
    /\ lastCall.op = "off"
    /\ lastCall.proper
    /\ lastCall.closed # <<>>
    /\ lastCall.pre.scopes[lastCall.this].on = 2
    /\ Len(lastCall.nest) = 2
    /\ lastCall.nest[1].scope = lastCall.this
    /\ lastCall.nest[2].kind = "on"
    /\ lastCall.nest[2].scope # lastCall.this
    /\ activeEffectScope = lastCall.nest[2].scope
    /\ scopes[lastCall.this].prevScope = lastCall.nest[1].before

(***************************************************************************)
(* The program of SpecOrder: user code makes scopes, at top level or       *)
(* inside run(fn) of a scope made before, makes the effects e1 and e2      *)
(* inside run(fn) of a scope, registers cleanups on scopes and stops       *)
(* scopes, in any order.                                                   *)
(***************************************************************************)
\* this.run(() => new EffectScope())
runNewScope(st, this) ==
    LET entered(r) ==
            IF r.frame = <<>> THEN r.st
            ELSE runFinally(newScope(r.st, FALSE), r.frame[1])
    IN  entered(runEnter(st, this))

\* new EffectScope() at top level (parent = 0) or inside parent.run(fn)
OrderNew(parent) ==
    /\ Len(scopes) < MaxScopes
    /\ Commit("new", parent, FALSE,
              IF parent = 0 THEN newScope(St, FALSE) ELSE runNewScope(St, parent))
    /\ UNCHANGED <<runStack, stoppedAt>>

\* this.cleanups.push(fn) with a new function fn
OrderCleanup(this) == RegisterCleanup(this, MaxOrdered)

NextOrder ==
    \/ \E parent \in {0} \cup DOMAIN scopes : OrderNew(parent)
    \/ \E this \in DOMAIN scopes : OrderCleanup(this)
    \/ \E this \in DOMAIN scopes, e \in Effects : CreateEffectIn(this, e)
    \/ \E this \in DOMAIN scopes : Stop(this, FALSE)

SpecOrder == InitScope /\ [][NextOrder]_vars

(***************************************************************************)
(* Claims on the order of the steps of stop(), checked under SpecOrder.    *)
(***************************************************************************)
\* the steps kind the stop() of scope by takes on the members of list
Steps(kind, by, list) ==
    [i \in DOMAIN list |-> [kind |-> kind, by |-> by, id |-> list[i]]]

\* the steps the stop() of scope s took in the last call
StepsOf(s) ==
    LET Test(ev) == ev.by = s
    IN  SelectSeq(lastCall.trace, Test)

\* the steps stop() of s is to take, s as it was before the call: effects,
\* cleanups, child scopes, each in list order, and for the scope the call was
\* made on, when it has a parent, the removal from the parent's list
StepsDue(s) ==
    LET sc == lastCall.pre.scopes[s]
    IN  Steps("effect", s, sc.effects) \o Steps("cleanup", s, sc.cleanups)
        \o Steps("scope", s, sc.scopes)
        \o (IF s = lastCall.this /\ ~sc.detached /\ sc.parent # 0
            THEN <<[kind |-> "unlink", by |-> s, id |-> sc.parent]>> ELSE <<>>)

\* C13: in one stop() of an active scope the owned effects are stopped in
\* list order, then the cleanups run in list order, then the child scopes
\* are stopped in list order, each taking the same steps in the same order
\* and none removing itself from the list of the scope that stops it, and
\* last the scope is removed from the list of its own parent; the steps of
\* the scopes below fall after the last cleanup and before that removal.
C13_StopOrder ==
    (StopCalled /\ lastCall.pre.scopes[lastCall.this].active) =>
        LET trace == lastCall.trace
            this == lastCall.this
        IN  /\ \A s \in StoppedSubtree : StepsOf(s) = StepsDue(s)
            /\ \A i \in DOMAIN trace : trace[i].by \in StoppedSubtree
            /\ \A i, j \in DOMAIN trace :
                  (trace[i].by = this /\ trace[j].by # this) =>
                      /\ trace[i].kind \in {"effect", "cleanup"} => i < j
                      /\ trace[i].kind = "unlink" => j < i
            /\ \A i \in DOMAIN trace :
                  trace[i].kind = "unlink" => i = Len(trace)

\* C13 witness: stop() of an active scope with a parent, two effects, a
\* cleanup and a child scope that owns a cleanup: six steps were taken, the
\* removal from the parent's list last
C13_Witness ==
    /\ StopCalled
    /\ lastCall.pre.scopes[lastCall.this].active
    /\ Len(lastCall.pre.scopes[lastCall.this].effects) = 2
    /\ Len(lastCall.pre.scopes[lastCall.this].cleanups) = 1
    /\ lastCall.pre.scopes[lastCall.this].parent # 0
    /\ \E c \in Range(lastCall.pre.scopes[lastCall.this].scopes) :
          lastCall.pre.scopes[c].cleanups # <<>>
    /\ Len(lastCall.trace) = 6
    /\ lastCall.trace[6].kind = "unlink"

(***************************************************************************)
(* The program of SpecRead: the proxies of SpecColl and one subscriber.    *)
(* A run of the subscriber's function makes one call of a read method of a *)
(* collection proxy and may take elements from the iterator it got; the    *)
(* deps the subscriber is linked to are those tracked in its latest run.   *)
(* Between the runs user code calls set and delete on the reactive Map.    *)
(* lastCollCall.run is the call the latest run of the subscriber made.     *)
(***************************************************************************)
IteratorMethods == {"keys", "values", "entries", "iterator"}

NoRun == [op |-> "none"]

\* the subscriber is notified by one of the trigger calls (dep.ts)
Notified(w, triggers, deps) ==
    \E i \in DOMAIN triggers : \E dep \in deps : Notifies(w, triggers[i], dep)

\* the call this[op](key, value) left c
CollDone(op, this, key, value, c, run) ==
    /\ heap' = c.w.heap
    /\ reactiveMap' = c.w.reactiveMap
    /\ readonlyMap' = c.w.readonlyMap
    /\ mapData' = c.map
    /\ setData' = c.set
    /\ targetMap' = c.deps
    /\ lastCollCall' = [op |-> op, this |-> this, key |-> key, value |-> value,
                        ret |-> c.ret, triggers |-> c.triggers,
                        tracks |-> c.tracks,
                        notified |-> Notified(c.w, c.triggers, targetMap),
                        run |-> run]
    /\ UNCHANGED <<objs, lastProxyCall, firstResult, scopeVars>>

\* a run of the subscriber's function: this[method](key) for a read method
ReadCall(this, method, key) ==
    /\ method \in ReadMethodsOf(toRawType(World, this))
    /\ method # "get" => key = Undefined
    /\ CollDone(method, this, key, Undefined,
                CallRead([Coll EXCEPT !.activeSub = TRUE, !.deps = {}],
                         this, method, key),
                [op |-> method, this |-> this, key |-> key])

\* the run goes on: next() of the iterator its call handed back
IterNext ==
    /\ lastCollCall.op \in IteratorMethods \cup {"next"}
    /\ lastCollCall.op = "next" => ~lastCollCall.ret.done
    /\ LET it == IF lastCollCall.op = "next" THEN lastCollCall.ret.iterator
                 ELSE lastCollCall.ret
       IN  CollDone("next", lastCollCall.this, Undefined, Undefined,
                    next([Coll EXCEPT !.activeSub = TRUE], it),
                    lastCollCall.run)

\* this.set(key, value) and this.delete(key), outside the subscriber
ReadWrite(this, method, key, value) ==
    /\ method \in MethodsOf(toRawType(World, this))
    /\ method = "delete" => value = Undefined
    /\ CollDone(method, this, key, value,
                CallMethod(Coll, this, method, key, value), lastCollCall.run)

InitRead ==
    /\ objs = CollObjs
    /\ heap = CollWorld.heap
    /\ reactiveMap = CollWorld.reactiveMap
    /\ readonlyMap = CollWorld.readonlyMap
    /\ NoProxyHistory
    /\ mapData \in {<<>>, (ReactiveKey :> PosZero),
                    (ReactiveKey :> NaNVal) @@ (KeyObj :> KeyObj)}
    /\ setData = {ReactiveKey}
    /\ lastCollCall = [op |-> "none", run |-> NoRun]
    /\ targetMap = {}
    /\ NoScopeState

NextRead ==
    \/ \E this \in CollProxies, method \in ReadMethodsOf("Map"),
          key \in KeyArgs \cup {Undefined} :
          ReadCall(this, method, key)
    \/ IterNext
    \/ \E method \in {"set", "delete"}, key \in KeyArgs,
          value \in {Undefined, PosZero} :
          ReadWrite(ReactiveMapProxy, method, key, value)

SpecRead == InitRead /\ [][NextRead]_vars

(***************************************************************************)
(* Claims on the collection read methods, checked under SpecRead.          *)
(***************************************************************************)
\* the dep of key on the raw target of proxy this
DepOf(this, key) == [target |-> toRaw(World, this), key |-> key]

\* the key a run calling method on this depends on
IterationKey(this, method) ==
    IF method = "keys" /\ this = ReactiveMapProxy THEN MAP_KEY_ITERATE_KEY
    ELSE ITERATE_KEY

\* the number of elements the raw collection of this holds
Held(this) ==
    IF this = ReactiveMapProxy THEN Cardinality(DOMAIN mapData)
    ELSE Cardinality(setData)

\* C15: inside the subscriber, keys() on the mutable reactive Map tracks
\* MAP_KEY_ITERATE_KEY of the raw Map and nothing else; values(), entries(),
\* the default iterator, forEach and size on it, and all of these on the
\* mutable reactive Set, track ITERATE_KEY of the raw target and nothing
\* else; the dep is there when the method returns, with every element still
\* to be yielded, and taking the elements tracks nothing more.
C15_IterationTracking ==
    LET l == lastCollCall
    IN  /\ (/\ l.op \in IteratorMethods \cup {"forEach", "size"}
            /\ l.this \in MutableProxies)
           => /\ l.tracks = <<DepOf(l.this, IterationKey(l.this, l.op))>>
              /\ targetMap = {DepOf(l.this, IterationKey(l.this, l.op))}
              /\ l.op \in IteratorMethods
                    => /\ Len(l.ret.rest) = Held(l.this)
                       /\ l.ret.wraps # <<>>
        /\ (l.op = "next" /\ l.this \in MutableProxies)
           => /\ l.tracks = <<>>
              /\ targetMap = {DepOf(l.this, IterationKey(l.this, l.run.op))}

\* the subscriber called keys() on the reactive Map holding entries, depends
\* on MAP_KEY_ITERATE_KEY alone, and has taken the first key
C15_Witness ==
    /\ lastCollCall.op = "next"
    /\ lastCollCall.run.op = "keys"
    /\ lastCollCall.this = ReactiveMapProxy
    /\ ~lastCollCall.ret.done
    /\ Len(lastCollCall.ret.iterator.rest) = 1
    /\ targetMap = {[target |-> MapObj, key |-> MAP_KEY_ITERATE_KEY]}

ReadonlyMapProxy == readonly(CollWorld, MapObj).ret
ReadonlyReactiveMap == readonly(CollWorld, ReactiveMapProxy).ret

\* the value the raw Map holds for key, looked up as given, then in raw form
Stored(key) ==
    IF MapHas(mapData, key) THEN MapGet(mapData, key)
    ELSE MapGet(mapData, RawForm(key))

\* the stored value as a get through this hands it out
Wrapped(this, value) ==
    IF this = ReactiveMapProxy THEN toReactive(World, value).ret
    ELSE IF this = ReadonlyMapProxy THEN toReadonly(World, value).ret
    ELSE toReadonly(World, toReactive(World, value).ret).ret

\* the key, when it differs from its raw form, and then its raw form
KeyThenRaw(key) ==
    (IF key # RawForm(key) THEN <<DepOf(ReactiveMapProxy, key)>> ELSE <<>>)
        \o <<DepOf(ReactiveMapProxy, RawForm(key))>>

MapProxies == {ReactiveMapProxy, ReadonlyMapProxy, ReadonlyReactiveMap}

\* the last call is a set through the reactive Map of the key the latest run
\* of the subscriber read with get(key) through proxy, and it emitted a
\* trigger
SetAfterGet(proxy) ==
    /\ lastCollCall.op = "set"
    /\ lastCollCall.this = ReactiveMapProxy
    /\ lastCollCall.run = [op |-> "get", this |-> proxy, key |-> lastCollCall.key]
    /\ lastCollCall.triggers # <<>>

\* get(key) through readonly(reactive(map)) runs the get of the reactive Map
\* on every path, so the subscriber depends on the key, and a later set of
\* the key through the reactive Map that emits a trigger notifies it
GetThroughReadonlyReactive ==
    LET l == lastCollCall
    IN  /\ (l.op = "get" /\ l.this = ReadonlyReactiveMap)
           => /\ l.tracks = IF ~MapHas(mapData, l.key)
                               /\ MapHas(mapData, RawForm(l.key))
                            THEN <<DepOf(l.this, RawForm(l.key))>>
                            ELSE KeyThenRaw(l.key)
              /\ DepOf(l.this, RawForm(l.key)) \in targetMap
        /\ SetAfterGet(ReadonlyReactiveMap) => l.notified

C20_LinkVersionSynced ==
    \A s \in Subs :
        graph.readLink[s].of # None => graph.readLink[s].synced

\* a write of a made c2 run again while no effect read c1: the read of
\* c1.value in the function of c2 recomputed c1 and raised the version of its
\* dep past what it was at an earlier read, and the link of c2 holds the new
\* version
C20_Witness ==
    /\ lastCall.op = "write"
    /\ graph.runs["e2"] = 0
    /\ lastCall.pre.g.version["c1"] >= 1
    /\ graph.version["c1"] > lastCall.pre.g.version["c1"]
    /\ graph.runs["c2"] > lastCall.pre.g.runs["c2"]
    /\ graph.readLink["c2"] = [of |-> "c1", synced |-> TRUE]
    /\ graph.linkVersion[<<"c1", "c2">>] = graph.version["c1"]

(***************************************************************************)
(* The program of SpecAssign: that of SpecGraph without batches and stops, *)
(* each computed made with or without the setter v => { a.value = v };     *)
(* user code also assigns to c1.value and c2.value.                        *)
(***************************************************************************)
\* c.value = x, by user code
AssignComputed(c, x) ==
    /\ graph.globalVersion < MaxWrites
    /\ LET r == setValue(graph, c, x)
       IN  /\ graph' = r.g
           /\ lastCall' = [op |-> "assign", this |-> c, arg |-> x, pre |-> St,
                           calls |-> r.calls, threw |-> r.threw]
    /\ UNCHANGED <<proxyVars, collVars, scopes, activeEffectScope, cleanupRuns,
                   cleanupScope, runStack, stoppedAt>>

InitAssign ==
    /\ NoProxyState
    /\ scopes = GraphScopes
    /\ activeEffectScope = 0
    /\ runStack = <<>>
    /\ cleanupRuns = <<>>
    /\ cleanupScope = <<>>
    /\ \E s1, s2 \in {None, "set"} :
          graph = ComputedRefImpl(ComputedRefImpl(InitGraph(PosZero), "c1", s1),
                                  "c2", s2)
    /\ lastCall = [op |-> "none"]
    /\ stoppedAt = NoStop

NextAssign ==
    \/ \E e \in Effects : CreateEffectIn(ChildScope, e)
    \/ \E v \in SourceValues : Write(v)
    \/ \E c \in Computeds : ReadComputed(c)
    \/ \E c \in Computeds, x \in SourceValues : AssignComputed(c, x)

SpecAssign == InitAssign /\ [][NextAssign]_vars

(***************************************************************************)
(* Claims on the assignment to a computed, checked under SpecAssign.       *)
(***************************************************************************)
\* C17: c.value = x invokes the setter c was made with exactly once, with x;
\* on a computed made without a setter the assignment throws nothing and
\* leaves the graph as it was, the cached value, the flags and the dep
\* version of c included; and the readonly flag of a computed is true
\* exactly when it was made without a setter.
C17_ComputedAssign ==
    /\ \A c \in Computeds : graph.isReadonly[c] <=> graph.setter[c] = None
    /\ lastCall.op = "assign" =>
          /\ ~lastCall.threw
          /\ IF graph.setter[lastCall.this] # None
             THEN lastCall.calls = <<lastCall.arg>>
             ELSE /\ lastCall.calls = <<>>
                  /\ graph = lastCall.pre.g

\* a computed made without a setter, with a cached value and an effect
\* subscribed to it, is assigned another value
C17_Witness ==
    /\ lastCall.op = "assign"
    /\ lastCall.this = "c2"
    /\ graph.setter["c2"] = None
    /\ graph.setter["c1"] # None
    /\ graph.isReadonly["c2"]
    /\ graph.cvalue["c2"] \notin {Undefined, lastCall.arg}
    /\ "e1" \in Range(graph.subs["c2"])

(***************************************************************************)
(* The program of SpecPause: a scope, a child scope of it and a child       *)
(* scope of that one are there from the start; user code makes the effects *)
(* inside run(fn) of any of them, writes a, and pauses, resumes and stops   *)
(* the scopes, in any order.                                               *)
(***************************************************************************)
\* const p = new EffectScope()
\* p.run(() => { new EffectScope().run(() => { new EffectScope() }) })
PauseScopes ==
    LET inner(r) == runFinally(newScope(r.st, FALSE), r.frame[1])
        outer(r) ==
            runFinally(inner(runEnter(newScope(r.st, FALSE), 2)), r.frame[1])
    IN  outer(runEnter(newScope(EmptySt, FALSE), 1)).scopes

\* this.pause()
Pause(this) ==
    /\ Commit("pause", this, Undefined, pause(St, this))
    /\ UNCHANGED <<runStack, stoppedAt>>

\* this.resume()
Resume(this) ==
    /\ Commit("resume", this, Undefined, resume(St, this))
    /\ UNCHANGED <<runStack, stoppedAt>>

\* a.value = v; the history keeps the name of the operation only
PauseWrite(v) ==
    /\ graph.globalVersion < MaxWrites
    /\ Commit("set", 0, v, [St EXCEPT !.g = refSet(graph, "a", v)])
    /\ UNCHANGED <<runStack, stoppedAt>>

\* this.stop(); the history keeps the name of the operation only
PauseStop(this) ==
    /\ Commit("stopped", this, FALSE, stop(St, this, FALSE))
    /\ UNCHANGED <<runStack, stoppedAt>>

InitPause ==
    /\ NoProxyState
    /\ scopes = PauseScopes
    /\ activeEffectScope = 0
    /\ runStack = <<>>
    /\ cleanupRuns = <<>>
    /\ cleanupScope = <<>>
    /\ graph = InitGraph(PosZero)
    /\ lastCall = [op |-> "none"]
    /\ stoppedAt = NoStop

NextPause ==
    \/ \E this \in DOMAIN scopes, e \in Effects : CreateEffectIn(this, e)
    \/ \E v \in {Prim(0), Prim(4)} : PauseWrite(v)
    \/ \E this \in DOMAIN scopes : Pause(this)
    \/ \E this \in DOMAIN scopes : Resume(this)
    \/ \E this \in DOMAIN scopes : PauseStop(this)

SpecPause == InitPause /\ [][NextPause]_vars

(***************************************************************************)
(* Claims on pause and resume, checked under SpecPause.                    *)
(***************************************************************************)
\* the ids the last operation took the step kind on, by scope `by`, in order
StepIds(kind, by) ==
    LET steps == SelectSeq(lastCall.trace,
                           LAMBDA x : x.kind = kind /\ x.by = by)
    IN  [i \in DOMAIN steps |-> steps[i].id]

RECURSIVE PausedTree(_, _)
\* the scope p and the paused scopes below it that a chain of paused scopes
\* links to p in the child lists of scs
PausedTree(scs, p) ==
    {p} \cup UNION {PausedTree(scs, c) :
                      c \in {d \in Range(scs[p].scopes) \ {0} : scs[d].isPaused}}

\* the effects the scopes of S own in scs
OwnedBy(scs, S) == UNION {Range(scs[s].effects) : s \in S}

\* the last operation left the scopes as they were, but for the paused mark
\* of the scopes of S being now mark
OnlyMarks(S, mark) ==
    scopes = [s \in DOMAIN lastCall.pre.scopes |->
                 IF s \in S
                 THEN [lastCall.pre.scopes[s] EXCEPT !.isPaused = mark]
                 ELSE lastCall.pre.scopes[s]]

\* the last operation left the graph as it was, but for the PAUSED flag the
\* effects of E have now
OnlyPaused(E) ==
    graph = [lastCall.pre.g EXCEPT
                !.flags = [x \in Subs |-> IF x \in E THEN @[x] \cup {PAUSED}
                                          ELSE @[x]]]

\* the effects of E are not PAUSED, and the others are if they were
Resumed(E) ==
    \A x \in Subs :
        PAUSED \in graph.flags[x]
            <=> (x \notin E /\ PAUSED \in lastCall.pre.g.flags[x])

\* pause() or resume() of scope s called the same method of each child scope
\* and of each owned effect of s, once each, in the order of the lists
CalledEach(onScope, onEffect, s) ==
    /\ StepIds(onScope, s) = lastCall.pre.scopes[s].scopes
    /\ StepIds(onEffect, s) = lastCall.pre.scopes[s].effects

\* C18: pause() on an active scope marks it, every scope below it and every
\* effect they own paused, by cascading to each child scope and each owned
\* effect; resume() on an active paused scope clears the mark and cascades
\* resume to each child scope and each owned effect, which clears the mark
\* of every paused scope a chain of paused scopes links to it and of their
\* effects; resume() on a scope that is not paused and pause() or resume() on
\* a stopped scope change no state and call nothing.
C18_PauseResumeCascade ==
    LET l == lastCall
        this == l.this
        pre == l.pre.scopes
    IN  /\ (l.op = "pause" /\ pre[this].active)
           => /\ OnlyMarks(Subtree(pre, this), TRUE)
              /\ OnlyPaused(OwnedBy(pre, Subtree(pre, this)))
              /\ \A s \in Subtree(pre, this) : CalledEach("pauseScope", "pauseEffect", s)
              /\ \A s \in DOMAIN pre \ Subtree(pre, this) :
                    /\ StepIds("pauseScope", s) = <<>>
                    /\ StepIds("pauseEffect", s) = <<>>
        /\ (l.op = "resume" /\ pre[this].active /\ pre[this].isPaused)
           => /\ OnlyMarks(PausedTree(pre, this), FALSE)
              /\ Resumed(OwnedBy(pre, PausedTree(pre, this)))
              /\ \A s \in PausedTree(pre, this) : CalledEach("resumeScope", "resumeEffect", s)
              /\ \A s \in DOMAIN pre \ PausedTree(pre, this) :
                    /\ StepIds("resumeScope", s) = <<>>
                    /\ StepIds("resumeEffect", s) = <<>>
        /\ (\/ l.op = "resume" /\ ~(pre[this].active /\ pre[this].isPaused)
            \/ l.op = "pause" /\ ~pre[this].active)
           => /\ scopes = pre
              /\ graph = l.pre.g
              /\ l.trace = <<>>

\* the three scopes were paused with e1 in the innermost and e2 above it, a
\* was written, and resume() of the outermost cascades down to e1, which
\* runs again
C18_Witness ==
    /\ lastCall.op = "resume"
    /\ lastCall.this = 1
    /\ \A s \in DOMAIN scopes :
          /\ lastCall.pre.scopes[s].active
          /\ lastCall.pre.scopes[s].isPaused
          /\ ~scopes[s].isPaused
    /\ graph.scope["e1"] = 3
    /\ graph.scope["e2"] \in {1, 2}
    /\ PAUSED \in lastCall.pre.g.flags["e1"]
    /\ PAUSED \notin graph.flags["e1"]
    /\ graph.runs["e1"] > lastCall.pre.g.runs["e1"]
    /\ Len(lastCall.trace) = 4

(***************************************************************************)
(* Claims on the proxy caches, checked under SpecProxy.                    *)
(***************************************************************************)
\* the proxies made so far
Proxies == {Px(i) : i \in 1..Len(heap)}

\* the readonly proxies whose raw object, all layers down, is o
ReadonlyProxiesOf(o) ==
    {p \in Proxies : isReadonly(World, p) /\ toRaw(World, p) = Obj(o)}

\* the proxies of the given flavor made with target t
ProxiesOn(t, readonlyFlavor) ==
    {p \in Proxies : /\ heap[p.v].target = t
                     /\ HandlersReadonly(heap[p.v].handlers) = readonlyFlavor}

\* C21 as stated: for every raw object o there is at most one readonly proxy
\* whose raw target is o, readonly(o) and readonly(reactive(o)) being the
\* same proxy.
C21_AsStated ==
    \A o \in ObjIds : Cardinality(ReadonlyProxiesOf(o)) <= 1

\* C21: proxies are deduplicated per target per flavor: for every target t, a
\* raw object or a reactive proxy, there is at most one readonly proxy made
\* with target t, and it is the entry of t in readonlyMap, so readonly(o)
\* returns one proxy at every call and readonly(reactive(o)) returns one
\* proxy at every call, in either call order; the two are distinct proxies
\* with the same raw object o.
C21_OnePerTargetAndFlavor ==
    /\ \A t \in {Obj(o) : o \in ObjIds} \cup Proxies :
          /\ Cardinality(ProxiesOn(t, TRUE)) <= 1
          /\ Cardinality(ProxiesOn(t, FALSE)) <= 1
          /\ \A p \in ProxiesOn(t, TRUE) :
                t \in DOMAIN readonlyMap /\ Px(readonlyMap[t]) = p
          /\ \A p \in ProxiesOn(t, FALSE) :
                t \in DOMAIN reactiveMap /\ Px(reactiveMap[t]) = p
    /\ (lastProxyCall.op = "readonly" /\ lastProxyCall.ret.t = "proxy"
            /\ lastProxyCall.ret # lastProxyCall.arg)
          => ProxiesOn(lastProxyCall.arg, TRUE) = {lastProxyCall.ret}
    /\ \A o \in ObjIds : Observable(o) =>
          LET q1 == readonly(World, Obj(o))
              r1 == reactive(q1.w, Obj(o))
              q2 == readonly(r1.w, r1.ret)
              q3 == readonly(q2.w, Obj(o))
          IN  /\ q1.ret # q2.ret
              /\ q3.ret = q1.ret
              /\ toRaw(q2.w, q1.ret) = Obj(o)
              /\ toRaw(q2.w, q2.ret) = Obj(o)

\* readonly(reactive(o)) is called again when readonly(o) exists as well: it
\* returns the proxy made for the reactive proxy, not the one made for o
C21_Witness ==
    /\ lastProxyCall.op = "readonly"
    /\ ReturnedByReactive(lastProxyCall.arg)
    /\ ~lastProxyCall.created
    /\ heap[lastProxyCall.ret.v].target = lastProxyCall.arg
    /\ \E o \in ObjIds :
          /\ firstResult["reactive"][o] = lastProxyCall.arg
          /\ firstResult["readonly"][o] \notin {Undefined, lastProxyCall.ret}
          /\ ReadonlyProxiesOf(o) = {firstResult["readonly"][o], lastProxyCall.ret}

(***************************************************************************)
(* Claims on the child lists, checked under SpecScope.                     *)
(***************************************************************************)
\* the active scopes that were made attached and have p for parent
ActiveChildren(p) ==
    {c \in DOMAIN scopes : /\ scopes[c].active
                           /\ ~scopes[c].detached
                           /\ scopes[c].parent = p}

\* how often scope c occurs in the child list of p
Occurrences(p, c) ==
    Cardinality({i \in DOMAIN scopes[p].scopes : scopes[p].scopes[i] = c})

runNew(st, this, detached) ==
    LET entered(r) ==
            IF r.frame = <<>> THEN r.st
            ELSE runFinally(newScope(r.st, detached), r.frame[1])
    IN  entered(runEnter(st, this))

\* enclosing.run(() => new EffectScope(detached))
DetachedNew(enclosing, detached) ==
    /\ Len(scopes) < MaxScopes
    /\ Commit("new", enclosing, detached, runNew(St, enclosing, detached))
    /\ UNCHANGED <<runStack, stoppedAt>>

NextDetached ==
    \/ \E enclosing \in DOMAIN scopes, detached \in BOOLEAN :
          DetachedNew(enclosing, detached)
    \/ \E this \in DOMAIN scopes : CreateEffectIn(this, "e1")
    \/ \E this \in DOMAIN scopes : AddCleanup(this)
    \/ \E this \in DOMAIN scopes : Stop(this, FALSE)
    \/ \E this \in DOMAIN scopes : Pause(this)
    \/ \E this \in DOMAIN scopes : Resume(this)

SpecDetached == InitGraphSpec /\ [][NextDetached]_vars

(***************************************************************************)
(* Claims on detached scopes, checked under SpecDetached.                  *)
(***************************************************************************)
\* the detached scopes that were active, with enclosing scope p, before the
\* last operation
DetachedIn(p) ==
    {d \in DOMAIN lastCall.pre.scopes :
        /\ lastCall.pre.scopes[d].detached
        /\ lastCall.pre.scopes[d].active
        /\ lastCall.pre.scopes[d].parent = p}

\* the last operation left scope d, its effects and its cleanups as they were
Untouched(d) ==
    /\ scopes[d] = lastCall.pre.scopes[d]
    /\ scopes[d].active
    /\ \A e \in Range(scopes[d].effects) :
          /\ graph.flags[e] = lastCall.pre.g.flags[e]
          /\ graph.runs[e] = lastCall.pre.g.runs[e]
          /\ graph.deps[e] = lastCall.pre.g.deps[e]
    /\ \A c \in Range(scopes[d].cleanups) :
          cleanupRuns[c] = lastCall.pre.cleanupRuns[c]

\* C24: a scope made with detached = true is in no child list; a stop(),
\* pause() or resume() of the scope that was current when it was made leaves
\* it active and leaves it, its effects and its cleanups as they were; its
\* own stop() leaves the child list of that scope and the indices of the
\* children in it as they were.
C24_DetachedApart ==
    /\ \A d \in DOMAIN scopes :
          scopes[d].detached =>
              /\ scopes[d].index = -1
              /\ \A p \in DOMAIN scopes : d \notin Range(scopes[p].scopes)
    /\ lastCall.op \in {"stop", "pause", "resume"} =>
          \A d \in DetachedIn(lastCall.this) : Untouched(d)
    /\ (lastCall.op = "stop" /\ lastCall.pre.scopes[lastCall.this].detached
            /\ lastCall.pre.scopes[lastCall.this].parent # 0) =>
          LET p == lastCall.pre.scopes[lastCall.this].parent
          IN  /\ scopes[p].scopes = lastCall.pre.scopes[p].scopes
              /\ \A c \in Range(scopes[p].scopes) :
                    scopes[c].index = lastCall.pre.scopes[c].index

\* the scope in which a detached scope with an effect and a cleanup was made
\* is stopped together with its attached child; the detached scope, the
\* effect and the cleanup are as before
C24_Witness ==
    /\ lastCall.op = "stop"
    /\ lastCall.pre.scopes[lastCall.this].active
    /\ lastCall.pre.scopes[lastCall.this].scopes # <<>>
    /\ \E d \in DetachedIn(lastCall.this) :
          /\ scopes[d].active
          /\ scopes[d].cleanups # <<>>
          /\ cleanupRuns[scopes[d].cleanups[1]] = 0
          /\ "e1" \in Range(scopes[d].effects)
          /\ ACTIVE \in graph.flags["e1"]

(***************************************************************************)
(* Claims on proxies given to reactive() and readonly(), checked under     *)
(* SpecProxy.                                                              *)
(***************************************************************************)
\* the last call was op(x) for a proxy x that is readonly or not as given
CalledOnProxy(op, readonlyFlavor) ==
    /\ lastProxyCall.op = op
    /\ lastProxyCall.arg.t = "proxy"
    /\ isReadonly(World, lastProxyCall.arg) = readonlyFlavor

\* C25: reactive(p) is p for every reactive proxy p; readonly(q) is q and
\* reactive(q) is q for every readonly proxy q, which stays readonly; none of
\* these calls makes a proxy or adds an entry to a proxy cache.
C25_IdempotentOnProxies ==
    /\ (\/ CalledOnProxy("reactive", FALSE)
        \/ CalledOnProxy("reactive", TRUE)
        \/ CalledOnProxy("readonly", TRUE))
          => /\ lastProxyCall.ret = lastProxyCall.arg
             /\ ~lastProxyCall.created
             /\ ~lastProxyCall.cached
    /\ CalledOnProxy("reactive", TRUE) => isReadonly(World, lastProxyCall.ret)
    /\ \A p \in Proxies :
          /\ reactive(World, p) = Result(World, p)
          /\ isReadonly(World, p) => readonly(World, p) = Result(World, p)

\* reactive(q) was called on the readonly proxy q of a reactive proxy and
\* returned q
C25_Witness ==
    /\ CalledOnProxy("reactive", TRUE)
    /\ ReturnedByReactive(heap[lastProxyCall.arg.v].target)
    /\ lastProxyCall.ret = lastProxyCall.arg
    /\ Len(heap) >= 3

(***************************************************************************)
(* The program of SpecNotify: that of SpecGraph with the effect e1 alone,  *)
(* where the function of each computed first makes the writes to a that    *)
(* user code has handed it, if any, and then reads as in SpecGraph.  A     *)
(* read of c.value by user code that finds c DIRTY is followed step by     *)
(* step: the tracking run begins, the function writes, the function reads  *)
(* and returns.                                                            *)
(***************************************************************************)
\* refreshComputed (spec.md 4.3, Refresh algorithm steps 2 and 4) for a DIRTY
\* c, up to the call of its function: the snapshot is taken and c is
\* installed as activeSub
evalEnter(g, c) ==
    [g EXCEPT !.cglobal[c] = g.globalVersion,
              !.activeSub = c,
              !.flags[c] = @ \cup {RUNNING},
              !.runs[c] = @ + 1]

\* refreshComputed (spec.md 4.3, Refresh algorithm steps 4 and 5) from the
\* reads of the function of c on: the result r is compared with the cached
\* value, DIRTY is cleared and the outer activeSub, outer, is restored
evalReturn(g, c, outer) ==
    LET compare(r) ==
            IF hasChanged(r.ret, r.g.cvalue[c])
            THEN [r.g EXCEPT !.activeSub = outer,
                             !.flags[c] = @ \ {RUNNING, DIRTY},
                             !.version[c] = @ + 1,
                             !.cvalue[c] = r.ret]
            ELSE [r.g EXCEPT !.activeSub = outer,
                             !.flags[c] = @ \ {RUNNING, DIRTY}]
    IN  compare(fn(g, c))

\* user code, outside any subscriber
Outside == graph.activeSub = None

\* the history of a step of the function of a computed
Stepped(op, c, arg, g) ==
    /\ graph' = g
    /\ lastCall' = [op |-> op, this |-> c, arg |-> arg, pre |-> St,
                    trace |-> <<>>]
    /\ UNCHANGED <<proxyVars, collVars, scopes, activeEffectScope, cleanupRuns,
                   cleanupScope, runStack, stoppedAt>>

\* c.value is read by user code and c is DIRTY: its function is called
EvalEnter(c) ==
    /\ Outside
    /\ DIRTY \in graph.flags[c]
    /\ Stepped("evalEnter", c, Undefined, evalEnter(graph, c))

\* a.value = v, in the function of the computed that is being evaluated
EvalWrite(v) ==
    /\ graph.activeSub \in Computeds
    /\ graph.globalVersion < MaxWrites
    /\ Stepped("evalWrite", graph.activeSub, v, refSet(graph, "a", v))

\* the function of the computed that is being evaluated reads and returns
EvalReturn ==
    /\ graph.activeSub \in Computeds
    /\ Stepped("evalReturn", graph.activeSub, Undefined,
               evalReturn(graph, graph.activeSub, None))

NextNotify ==
    \/ Outside /\ CreateEffectIn(ChildScope, "e1")
    \/ Outside /\ \E v \in SourceValues : Write(v)
    \/ Outside /\ ReadComputed("c2")
    \/ Outside /\ StartBatch
    \/ Outside /\ EndBatch
    \/ \E c \in Computeds : EvalEnter(c)
    \/ \E v \in SourceValues : EvalWrite(v)
    \/ EvalReturn

SpecNotify == InitGraphSpec /\ [][NextNotify]_vars

(***************************************************************************)
(* Claims on the notification of a computed, checked under SpecNotify.     *)
(***************************************************************************)
\* how many times x is in seq
TimesIn(seq, x) == Cardinality({i \in DOMAIN seq : seq[i] = x})

\* the latest step wrote a new value to a while g was the graph
Wrote(op) ==
    /\ lastCall.op = op
    /\ hasChanged(lastCall.arg, lastCall.pre.g.value["a"])

\* c.notify() was called in the latest step, which began in graph state g:
\* c1 by the dep of a; c2 by the dep of c1, when c1 was enqueued and the
\* batch was drained in that step
NotifyCalled(c) ==
    LET g == lastCall.pre.g
        c1Called == "c1" \in Range(g.subs["a"])
    IN  IF c = "c1" THEN c1Called
        ELSE /\ c1Called
             /\ "c2" \in Range(g.subs["c1"])
             /\ NOTIFIED \notin g.flags["c1"]
             /\ g.activeSub # "c1"
             /\ g.batchDepth = 0

\* C22: c.notify() always sets DIRTY; it enqueues c into the batch and
\* returns true exactly when c is not NOTIFIED and is not the active
\* subscriber; a computed that is NOTIFIED already, or that a write in its own
\* evaluation notifies, is marked DIRTY and not enqueued; no computed is in
\* the batch queue more than once.
C22_NotifyEnqueuesOnce ==
    /\ \A c \in Computeds :
          LET r == computedNotify(graph, c)
              enqueue == NOTIFIED \notin graph.flags[c] /\ graph.activeSub # c
          IN  /\ r.g.flags[c] \ {NOTIFIED} = (graph.flags[c] \cup {DIRTY}) \ {NOTIFIED}
              /\ r.ret = enqueue
              /\ enqueue => /\ r.g.batchedComputed = <<c>> \o graph.batchedComputed
                            /\ NOTIFIED \in r.g.flags[c]
              /\ ~enqueue => /\ r.g.batchedComputed = graph.batchedComputed
                             /\ r.g.flags[c] = graph.flags[c] \cup {DIRTY}
              /\ TimesIn(r.g.batchedComputed, c) = 1 \/ ~enqueue
              /\ TimesIn(graph.batchedComputed, c) <= 1
              /\ c \in Range(graph.batchedComputed) => NOTIFIED \in graph.flags[c]
    /\ \A c \in Computeds :
          Wrote("evalWrite") /\ lastCall.this = c /\ NotifyCalled(c)
              => /\ DIRTY \in graph.flags[c]
                 /\ TimesIn(graph.batchedComputed, c) =
                       TimesIn(lastCall.pre.g.batchedComputed, c)
                 /\ (NOTIFIED \in graph.flags[c])
                       = (NOTIFIED \in lastCall.pre.g.flags[c])
    /\ \A c \in Computeds :
          (/\ Wrote("write")
           /\ lastCall.pre.g.batchDepth > 0
           /\ NotifyCalled(c)
           /\ NOTIFIED \in lastCall.pre.g.flags[c])
              => /\ DIRTY \in graph.flags[c]
                 /\ graph.batchedComputed = lastCall.pre.g.batchedComputed

\* in an open batch c1 was NOTIFIED and queued, its value was then read and
\* it was DIRTY no more, and the function of c1 wrote to a while c1 was being
\* evaluated again: c1 is DIRTY and in the queue once, as before
C22_Witness ==
    /\ Wrote("evalWrite")
    /\ lastCall.this = "c1"
    /\ NotifyCalled("c1")
    /\ graph.activeSub = "c1"
    /\ graph.batchDepth > 0
    /\ graph.batchedComputed = <<"c1">>
    /\ DIRTY \in graph.flags["c1"]

(***************************************************************************)
(* The program of SpecLive: a scope and a child scope of it are there from *)
(* the start; user code makes scopes, attached or detached, and calls      *)
(* run(fn), on(), off() and stop() on the scopes in any order, also        *)
(* stop() inside a run(fn) and new EffectScope() while a stopped scope is  *)
(* the current one.                                                        *)
(***************************************************************************)
\* the scopes with an open on()
OpenOn == {s \in DOMAIN scopes : scopes[s].on > 0}

\* this.on(), on a scope without an open on()
LiveOn(this) ==
    /\ this \notin OpenOn
    /\ Cardinality(OpenOn) < MaxOpenOn
    /\ Commit("on", this, Undefined, on(St, this))
    /\ UNCHANGED <<runStack, stoppedAt>>

\* this.off()
LiveOff(this) ==
    /\ Commit("off", this, Undefined, off(St, this))
    /\ UNCHANGED <<runStack, stoppedAt>>

NextLive ==
    \/ \E detached \in BOOLEAN : NewScope(detached)
    \/ \E this \in DOMAIN scopes : RunEnter(this)
    \/ RunReturn
    \/ \E this \in DOMAIN scopes : LiveOn(this)
    \/ \E this \in DOMAIN scopes : LiveOff(this)
    \/ \E this \in DOMAIN scopes : PauseStop(this)

SpecLive == InitGraphSpec /\ [][NextLive]_vars

(***************************************************************************)
(* Claims on the children of a stopped scope, checked under SpecLive.      *)
(***************************************************************************)
\* in the scopes scs, s is active and its parent pointer or the child list
\* of p says that s is a child of the inactive scope p
LiveChildOf(scs, p, s) ==
    /\ p \in DOMAIN scs
    /\ s \in DOMAIN scs
    /\ ~scs[p].active
    /\ scs[s].active
    /\ (scs[s].parent = p \/ s \in Range(scs[p].scopes))

====
